---------------------------- MODULE Spec2Model ----------------------------
(***************************************************************************)
(* A model of the localserver HTTP/1.1 origin server: the incremental      *)
(* request parser (request.rs), the response producers and the per-        *)
(* connection state machine (server.rs), and the static handlers           *)
(* (handler.rs, response.rs, cgi.rs).                                      *)
(*                                                                         *)
(* Byte strings (Vec<u8>, String, &str) are TLA+ strings; TLC treats a     *)
(* string as a sequence of characters (Len, SubSeq and \o apply).          *)
(***************************************************************************)
EXTENDS Integers, Sequences, FiniteSets, TLC

(***************************************************************************)
(* String primitives of the Rust standard library used by the code.        *)
(***************************************************************************)
Min(a, b) == IF a <= b THEN a ELSE b

At(s, i) == SubSeq(s, i, i)

Take(s, n) == SubSeq(s, 1, n)

Drop(s, n) == SubSeq(s, n + 1, Len(s))

StartsWith(s, pre) == Len(pre) <= Len(s) /\ Take(s, Len(pre)) = pre

EndsWith(s, suf) == Len(suf) <= Len(s) /\ Drop(s, Len(s) - Len(suf)) = suf

\* The first position in lo..hi at which pat occurs in s, 0 when there is none.
\* The range is searched left half first, so that the evaluation stays shallow.
RECURSIVE FindIn(_, _, _, _)
FindIn(s, pat, lo, hi) ==
    IF lo > hi THEN 0
    ELSE IF lo = hi
         THEN (IF SubSeq(s, lo, lo + Len(pat) - 1) = pat THEN lo ELSE 0)
         ELSE LET mid == (lo + hi) \div 2
                  l   == FindIn(s, pat, lo, mid)
              IN  IF l # 0 THEN l ELSE FindIn(s, pat, mid + 1, hi)

\* str::find / windows(n).position: index (1-based) of the first occurrence
\* of pat in s, 0 when there is none.
Find(s, pat) == FindIn(s, pat, 1, Len(s) - Len(pat) + 1)

Contains(s, pat) == Find(s, pat) # 0

LowerAlpha == "abcdefghijklmnopqrstuvwxyz"

UpperAlpha == "ABCDEFGHIJKLMNOPQRSTUVWXYZ"

LowerTable ==
    [c \in {At(UpperAlpha, i) : i \in 1..26} |-> At(LowerAlpha, Find(UpperAlpha, c))]

UpperTable ==
    [c \in {At(LowerAlpha, i) : i \in 1..26} |-> At(UpperAlpha, Find(LowerAlpha, c))]

LowerChar(c) == IF c \in DOMAIN LowerTable THEN LowerTable[c] ELSE c

UpperChar(c) == IF c \in DOMAIN UpperTable THEN UpperTable[c] ELSE c

RECURSIVE to_lowercase(_)
to_lowercase(s) ==
    IF Len(s) <= 1 THEN LowerChar(s)
    ELSE to_lowercase(Take(s, Len(s) \div 2)) \o to_lowercase(Drop(s, Len(s) \div 2))

RECURSIVE to_uppercase(_)
to_uppercase(s) ==
    IF Len(s) <= 1 THEN UpperChar(s)
    ELSE to_uppercase(Take(s, Len(s) \div 2)) \o to_uppercase(Drop(s, Len(s) \div 2))

WhiteSpace == {" ", "\t", "\n", "\r", "\f"}

\* The first position in lo..hi of s holding a whitespace character (ws) or a
\* non-whitespace character (~ws), 0 when there is none.
RECURSIVE FirstWs(_, _, _, _)
FirstWs(s, ws, lo, hi) ==
    IF lo > hi THEN 0
    ELSE IF lo = hi
         THEN (IF (At(s, lo) \in WhiteSpace) = ws THEN lo ELSE 0)
         ELSE LET mid == (lo + hi) \div 2
                  l   == FirstWs(s, ws, lo, mid)
              IN  IF l # 0 THEN l ELSE FirstWs(s, ws, mid + 1, hi)

\* The last position in lo..hi of s holding a non-whitespace character, or 0.
RECURSIVE LastNonWs(_, _, _)
LastNonWs(s, lo, hi) ==
    IF lo > hi THEN 0
    ELSE IF lo = hi
         THEN (IF At(s, lo) \notin WhiteSpace THEN lo ELSE 0)
         ELSE LET mid == (lo + hi) \div 2
                  r   == LastNonWs(s, mid + 1, hi)
              IN  IF r # 0 THEN r ELSE LastNonWs(s, lo, mid)

trim_start(s) ==
    LET i == FirstWs(s, FALSE, 1, Len(s)) IN IF i = 0 THEN "" ELSE Drop(s, i - 1)

trim_end(s) == Take(s, LastNonWs(s, 1, Len(s)))

trim(s) == trim_end(trim_start(s))

\* str::split(ch): the pieces between occurrences of ch, empty pieces kept.
RECURSIVE split(_, _)
split(s, ch) ==
    LET i == Find(s, ch) IN
    IF i = 0 THEN <<s>>
    ELSE <<Take(s, i - 1)>> \o split(Drop(s, i + Len(ch) - 1), ch)

\* str::split_whitespace: the maximal runs of non-whitespace characters.
RECURSIVE split_whitespace(_)
split_whitespace(s) ==
    LET t == trim_start(s)
        e == FirstWs(t, TRUE, 1, Len(t))
    IN  IF t = "" THEN <<>>
        ELSE IF e = 0 THEN <<t>>
        ELSE <<Take(t, e - 1)>> \o split_whitespace(Drop(t, e))

\* F applied to the value v: a binding of v that is written out once.
With(v, F(_)) == F(v)

\* Option<T>
None == [some |-> FALSE]

Some(v) == [some |-> TRUE, v |-> v]

\* str::split_once(ch)
split_once(s, ch) ==
    LET i == Find(s, ch) IN
    IF i = 0 THEN None ELSE Some(<<Take(s, i - 1), Drop(s, i)>>)

DecDigits == "0123456789"

HexDigits == "0123456789abcdef"

\* Value of a non-empty string of digits in the given radix (<= 16).
RECURSIVE DigitsValue(_, _, _)
DigitsValue(s, radix, acc) ==
    IF s = "" THEN acc
    ELSE DigitsValue(Drop(s, 1), radix,
                     acc * radix + Find(HexDigits, LowerChar(At(s, 1))) - 1)

AllDigits(s, radix) ==
    /\ s # ""
    /\ \A i \in 1..Len(s) :
          LET d == Find(HexDigits, LowerChar(At(s, i))) IN d # 0 /\ d <= radix

\* str::parse::<usize>(): an optional '+' and decimal digits; None on error.
parse_usize(s) ==
    LET digits == IF StartsWith(s, "+") THEN Drop(s, 1) ELSE s IN
    IF AllDigits(digits, 10) THEN Some(DigitsValue(digits, 10, 0)) ELSE None

\* i64::from_str_radix(s, 16): an optional sign and hex digits; None on error.
from_str_radix16(s) ==
    LET neg    == StartsWith(s, "-")
        digits == IF StartsWith(s, "+") \/ neg THEN Drop(s, 1) ELSE s
    IN  IF AllDigits(digits, 16)
        THEN Some(IF neg THEN 0 - DigitsValue(digits, 16, 0)
                         ELSE DigitsValue(digits, 16, 0))
        ELSE None

(***************************************************************************)
(* utils/methods.rs and utils/headers.rs                                   *)
(***************************************************************************)
\* HttpMethod::from_str: GET, POST, DELETE, or Other(name), upper-cased.
HttpMethod_from_str(m) == to_uppercase(m)

HttpMethod_is_other(m) == m \notin {"GET", "POST", "DELETE"}

\* HttpHeaders: a map keyed by the ASCII-lower-cased name.
HttpHeaders_new == [k \in {} |-> ""]

HttpHeaders_insert(h, key, value) ==
    LET lk == to_lowercase(key) IN
    [k \in DOMAIN h \cup {lk} |-> IF k = lk THEN value ELSE h[k]]

HttpHeaders_get(h, key) ==
    LET lk == to_lowercase(key) IN
    IF lk \in DOMAIN h THEN Some(h[lk]) ELSE None

HttpHeaders_len(h) == Cardinality(DOMAIN h)

(***************************************************************************)
(* request.rs: the incremental request parser                              *)
(***************************************************************************)
MAX_HEADER_SIZE == 16384

MAX_HEADER_COUNT == 100

\* A stand-in for a byte that is not valid UTF-8 (str::from_utf8 fails on it).
BadByte == "\f"

HttpRequestBuilder_new ==
    [ state     |-> "Init",
      buffer    |-> "",
      body_size |-> 0,
      chunked   |-> FALSE,
      request   |-> [ method  |-> "GET",
                      path    |-> "",
                      args    |-> [k \in {} |-> ""],
                      headers |-> HttpHeaders_new,
                      body    |-> "" ] ]

done(p) == p.state = "Finish"

get(p) == IF p.state = "Finish" THEN Some(p.request) ELSE None

\* get_line: drains the first CRLF-terminated line from the buffer; the line is
\* lost (None) when it is not valid UTF-8; the buffer is untouched without CRLF.
get_line(buffer) ==
    LET pos == Find(buffer, "\r\n") IN
    IF pos = 0 THEN [line |-> None, buffer |-> buffer]
    ELSE [ line   |-> IF Contains(Take(buffer, pos - 1), BadByte)
                      THEN None ELSE Some(Take(buffer, pos - 1)),
           buffer |-> Drop(buffer, pos + 1) ]

\* The query map built from path_parts[1]: pairs with exactly one '='; a later
\* pair with the same key overwrites an earlier one (collect into a HashMap).
RECURSIVE ArgsOf(_, _)
ArgsOf(pairs, acc) ==
    IF pairs = <<>> THEN acc
    ELSE LET kv == split(Head(pairs), "=") IN
         ArgsOf(Tail(pairs),
                IF Len(kv) = 2
                THEN [k \in DOMAIN acc \cup {kv[1]} |->
                         IF k = kv[1] THEN kv[2] ELSE acc[k]]
                ELSE acc)

Ret(p, ctl) == [p |-> p, ctl |-> ctl]

\* One iteration of the while loop of append in State::Init.
StepInit(p) ==
    LET gl == get_line(p.buffer)
        q  == [p EXCEPT !.buffer = gl.buffer]
    IN  IF ~gl.line.some
        THEN IF Len(q.buffer) >= MAX_HEADER_SIZE
             THEN Ret(q, "Entity Too Large") ELSE Ret(q, "Ok")
        ELSE LET parts == split_whitespace(gl.line.v) IN
             IF Len(parts) # 3
             THEN Ret(q, "Invalid method + path + version request")
             ELSE LET path_parts == split(parts[2], "?") IN
                  Ret([q EXCEPT
                         !.request.method = HttpMethod_from_str(parts[1]),
                         !.request.path = path_parts[1],
                         !.request.args =
                             IF Len(path_parts) > 1
                             THEN ArgsOf(split(path_parts[2], "&"),
                                         [k \in {} |-> ""])
                             ELSE @,
                         !.state = "Headers"], "loop")

\* The header-count and header-line caps of State::Headers.
HeaderCapExceeded(p, line) ==
    HttpHeaders_len(p.request.headers) > MAX_HEADER_COUNT
        \/ Len(line) > MAX_HEADER_SIZE

\* The state entered at the empty line that ends the headers.
AfterHeaders(p) ==
    IF p.body_size = 0 /\ ~p.chunked THEN "Finish" ELSE "Body"

\* One iteration of the while loop of append in State::Headers.
StepHeaders(p) ==
    LET gl == get_line(p.buffer)
        q  == [p EXCEPT !.buffer = gl.buffer]
    IN  IF ~gl.line.some THEN Ret(q, "Ok")
        ELSE LET line == gl.line.v IN
        IF line = "" THEN Ret([q EXCEPT !.state = AfterHeaders(q)], "loop")
        ELSE IF HeaderCapExceeded(q, line)
        THEN Ret(q, "Header number exceed allowed")
        ELSE LET kv == split_once(line, ":") IN
        IF ~kv.some THEN Ret(q, "Invalid Header")
        ELSE LET key     == trim(kv.v[1])
                 value   == trim(kv.v[2])
                 h       == q.request.headers
                 isCL    == to_lowercase(key) = "content-length"
                 isTE    == to_lowercase(key) = "transfer-encoding"
                               /\ to_lowercase(value) = "chunked"
                 hasCL   == HttpHeaders_get(h, "content-length").some
                 skipCL  == isCL /\ (hasCL \/ HttpHeaders_get(h, "Transfer-Encoding")
                                                  = Some("chunked"))
                 size    == parse_usize(value)
             IN  IF skipCL THEN Ret(q, "loop")
                 ELSE IF isCL /\ ~size.some THEN Ret(q, "invalid content-length")
                 ELSE IF isTE /\ hasCL THEN Ret(q, "loop")
                 ELSE Ret([q EXCEPT
                             !.body_size = IF isCL THEN size.v ELSE @,
                             !.chunked = IF isTE THEN TRUE ELSE @,
                             !.request.headers = HttpHeaders_insert(h, key, value)],
                          "loop")

\* The chunk-size line: an optional 0x prefix, then i64::from_str_radix(_, 16).
ChunkSize(line) ==
    from_str_radix16(IF StartsWith(line, "0x") THEN Drop(line, 2) ELSE line)

\* The fixed-length branch of State::Body, after the bytes were absorbed.
BodyFixedNext(p) == [p EXCEPT !.state = "Finish"]

\* A usize is held as the integer nearest to 0 that equals it modulo 2^64: a
\* negative v stands for 2^64 + v. The sum a + b of two of them overflows when
\* it reaches 2^64.
AddOverflows(a, b) == (a < 0 /\ b < 0) \/ ((a < 0) # (b < 0) /\ a + b >= 0)

\* The difference a - b of a usize a and a length b underflows when a < b.
SubUnderflows(a, b) == a >= 0 /\ a < b

\* The chunked branch of State::Body, after the bytes were absorbed. The size
\* is an i64 cast to usize; overflow_checks: the build panics on arithmetic
\* overflow (the dev profile) instead of wrapping (the release profile).
BodyChunkedNext(p, overflow_checks) ==
    LET e  == IF p.body_size # 0 THEN get_line(p.buffer)
              ELSE [line |-> Some(""), buffer |-> p.buffer]
        q  == [p EXCEPT !.buffer = e.buffer]
    IN  IF ~e.line.some THEN Ret(q, "Ok")
        ELSE LET s == get_line(q.buffer)
                 r == [q EXCEPT !.buffer = s.buffer]
             IN  IF ~s.line.some THEN Ret(r, "Ok")
                 ELSE LET size == ChunkSize(s.line.v) IN
                      IF ~size.some THEN Ret(r, "Invalud chunk size")
                      ELSE IF size.v = 0 THEN Ret([r EXCEPT !.state = "Finish"], "Ok")
                      ELSE IF overflow_checks /\ AddOverflows(r.body_size, size.v)
                      THEN Ret(r, "panic")
                      ELSE Ret([r EXCEPT !.body_size = @ + size.v], "loop")

\* One iteration of the while loop of append in State::Body.
StepBody(p, overflow_checks) ==
    LET body_left == p.body_size - Len(p.request.body)
        to_take   == IF body_left < 0 THEN Len(p.buffer)
                     ELSE Min(body_left, Len(p.buffer))
        q == IF body_left # 0
             THEN [p EXCEPT !.request.body = @ \o Take(p.buffer, to_take),
                            !.buffer = Drop(p.buffer, to_take)]
             ELSE p
    IN  IF overflow_checks /\ SubUnderflows(p.body_size, Len(p.request.body))
        THEN Ret(p, "panic")
        ELSE IF q.chunked THEN BodyChunkedNext(q, overflow_checks)
        ELSE Ret(BodyFixedNext(q), "Ok")

Step(p, overflow_checks) ==
    CASE p.state = "Init"    -> StepInit(p)
      [] p.state = "Headers" -> StepHeaders(p)
      [] p.state = "Body"    -> StepBody(p, overflow_checks)
      [] p.state = "Finish"  -> Ret(p, "Ok")

\* One pass of while !self.buffer.is_empty() { match self.state { ... } }:
\* "loop" when the body ran to its end (or hit continue), else the value returned.
Iterate(p, overflow_checks) ==
    IF p.buffer = "" THEN Ret(p, "Ok") ELSE Step(p, overflow_checks)

\* Up to n passes of the loop. An iteration that goes round again has drained
\* at least one byte of the buffer, so Len(buffer) + 1 passes end the loop; the
\* passes are split in halves to keep the evaluation shallow.
RECURSIVE RunLoop(_, _, _)
RunLoop(p, n, overflow_checks) ==
    IF n <= 1 THEN Iterate(p, overflow_checks)
    ELSE LET half == RunLoop(p, n \div 2, overflow_checks) IN
         IF half.ctl # "loop" THEN half
         ELSE RunLoop(half.p, n - (n \div 2), overflow_checks)

\* HttpRequestBuilder::append: the parser afterwards and Ok, the error, or
\* "panic" when the call did not return.
append(p, chunk, overflow_checks) ==
    LET q == [p EXCEPT !.buffer = @ \o chunk] IN
    RunLoop(q, Len(q.buffer) + 1, overflow_checks)


(***************************************************************************)
(* server.rs: the response producers (trait HttpResponseCommon)            *)
(***************************************************************************)
\* The size of FileResponse's staging buffer.
FILE_BUFFER_SIZE == 8192

\* response.rs: detect_content_type
detect_content_type(path) ==
    IF EndsWith(path, ".html") \/ EndsWith(path, ".htm") THEN "text/html"
    ELSE IF EndsWith(path, ".css") THEN "text/css"
    ELSE IF EndsWith(path, ".js") THEN "application/javascript"
    ELSE IF EndsWith(path, ".json") THEN "application/json"
    ELSE IF EndsWith(path, ".png") THEN "image/png"
    ELSE IF EndsWith(path, ".jpg") \/ EndsWith(path, ".jpeg") THEN "image/jpeg"
    ELSE IF EndsWith(path, ".gif") THEN "image/gif"
    ELSE IF EndsWith(path, ".svg") THEN "image/svg+xml"
    ELSE IF EndsWith(path, ".txt") THEN "text/plain"
    ELSE "application/octet-stream"

RECURSIVE ToDec(_)
ToDec(n) ==
    IF n < 10 THEN At(DecDigits, n + 1)
    ELSE ToDec(n \div 10) \o At(DecDigits, (n % 10) + 1)

SimpleResponse_new(data) == [kind |-> "simple", data |-> data, index |-> 0]

\* FileResponse::new on an open regular file with the given contents: the
\* header block carries the length from the file's metadata.
FileResponse_new(file_path, contents) ==
    [ kind          |-> "file",
      headers       |-> "HTTP/1.1 200 OK\r\nContent-Length: " \o ToDec(Len(contents))
                          \o "\r\nContent-Type: " \o detect_content_type(file_path)
                          \o "\r\n\r\n",
      headers_index |-> 0,
      headers_sent  |-> FALSE,
      file          |-> contents,   \* the open file
      pos           |-> 0,          \* the reader's offset in it
      buffer        |-> "",         \* buffer[0 .. buf_len]
      buf_len       |-> 0,
      buf_index     |-> 0,
      finished      |-> FALSE,
      readable      |-> TRUE ]      \* a regular file, not a directory

\* FileResponse::new on a directory: File::open and metadata succeed (the
\* length is that of the directory entry), every read fails.
FileResponse_new_dir(file_path) ==
    [FileResponse_new(file_path, "") EXCEPT
        !.headers = "HTTP/1.1 200 OK\r\nContent-Length: 4096\r\nContent-Type: "
                        \o detect_content_type(file_path) \o "\r\n\r\n",
        !.readable = FALSE]

\* The outcomes of one non-blocking stream.write(data) or one reader.read(buf).
WouldBlock == [kind |-> "WouldBlock", n |-> 0]

IoError == [kind |-> "Err", n |-> 0]

IoOk(n) == [kind |-> "Ok", n |-> n]

\* What a read of the file into the staging buffer may return: Ok(0) at the end
\* of the file, else Ok(n) for any n up to the buffer size and the bytes left,
\* or an error.
ReadOutcomes(r) ==
    {IoError} \cup
    (IF r.kind = "file" /\ ~r.readable THEN {}
     ELSE IF r.kind # "file" \/ r.pos >= Len(r.file) THEN {IoOk(0)}
     ELSE {IoOk(n) : n \in 1..Min(FILE_BUFFER_SIZE, Len(r.file) - r.pos)})

\* A refill that leaves the cursor where it was.
RefilledIndex_kept(r) == r.buf_index

\* The staging-buffer cursor after a refill.
RefilledIndex(r) == 0

\* FileResponse::fill_buffer, the read returning Ok(n).
fill_buffer(r, n) ==
    IF r.buf_index >= r.buf_len /\ ~r.finished
    THEN [r EXCEPT !.buffer = SubSeq(r.file, r.pos + 1, r.pos + n),
                   !.pos = @ + n,
                   !.buf_index = RefilledIndex(r),
                   !.buf_len = n,
                   !.finished = (n = 0)]
    ELSE r

\* Whether fill_if_needed reads the file.
NeedsFill(r) ==
    r.kind = "file" /\ r.headers_sent /\ r.buf_index >= r.buf_len /\ ~r.finished

\* fill_if_needed, the read (if any) ending as rd: the producer, or None when
\* the read failed.
fill_if_needed(r, rd) ==
    IF ~NeedsFill(r) THEN Some(r)
    ELSE IF rd.kind = "Ok" THEN Some(fill_buffer(r, rd.n)) ELSE None

peek(r) ==
    IF r.kind = "simple" THEN Drop(r.data, r.index)
    ELSE IF ~r.headers_sent THEN Drop(r.headers, r.headers_index)
    ELSE SubSeq(r.buffer, r.buf_index + 1, r.buf_len)

\* A next that leaves the cursor where it was.
next_unmoved(r, n) == r

next(r, n) ==
    IF r.kind = "simple" THEN [r EXCEPT !.index = @ + n]
    ELSE IF ~r.headers_sent
         THEN [r EXCEPT !.headers_index = @ + n,
                        !.headers_sent = (r.headers_index + n >= Len(r.headers))]
         ELSE [r EXCEPT !.buf_index = @ + n]

is_finished(r) ==
    IF r.kind = "simple" THEN r.index >= Len(r.data)
    ELSE r.headers_sent /\ r.finished /\ r.buf_index >= r.buf_len

\* What stream.write(data) may return: any count from 1 to the bytes offered,
\* would-block, or an error.
WriteOutcomes(data) == {WouldBlock, IoError} \cup {IoOk(n) : n \in 1..Len(data)}

\* write_response: rd is how the file read ends if the producer refills, wr the
\* outcome of stream.write if it is called. ret is the Option<bool> returned,
\* sent the bytes that reached the socket.
write_response(response, rd, wr) ==
    LET f == fill_if_needed(response, rd) IN
    IF ~f.some THEN [resp |-> response, ret |-> None, sent |-> ""]
    ELSE LET r    == f.v
             data == peek(r)
         IN  IF data = "" THEN [resp |-> r, ret |-> Some(TRUE), sent |-> ""]
             ELSE IF wr.kind = "Ok"
             THEN LET r2 == next(r, wr.n) IN
                  [resp |-> r2, ret |-> Some(~is_finished(r2)),
                   sent |-> Take(data, wr.n)]
             ELSE IF wr.kind = "WouldBlock"
             THEN [resp |-> r, ret |-> Some(FALSE), sent |-> ""]
             ELSE [resp |-> r, ret |-> None, sent |-> ""]

\* The environment's choices for one write_response call: the file read (taken
\* only when the producer refills) and the socket write (taken only when the
\* window peeked after the refill is not empty).
WriteEnv(response) ==
    LET rds == IF NeedsFill(response) THEN ReadOutcomes(response) ELSE {IoOk(0)}
        wrs(rd) ==
            LET f == fill_if_needed(response, rd) IN
            IF ~f.some \/ peek(f.v) = "" THEN {WouldBlock}
            ELSE WriteOutcomes(peek(f.v))
    IN  UNION {{[rd |-> rd, wr |-> wr] : wr \in wrs(rd)} : rd \in rds}

(***************************************************************************)
(* The filesystem as std::fs and std::path see it. A filesystem maps the    *)
(* canonical absolute path of every node to the node: a directory, a       *)
(* regular file with its contents, or a symbolic link with its target (a   *)
(* canonical path of a node that is no link).                              *)
(***************************************************************************)
Dir == [kind |-> "dir", data |-> ""]

File(contents) == [kind |-> "file", data |-> contents]

Link(target) == [kind |-> "link", data |-> target]

\* Path::components of an absolute path: empty and "." components dropped.
Components(path) == SelectSeq(split(path, "/"), LAMBDA c : c # "" /\ c # ".")

RECURSIVE JoinComponents(_)
JoinComponents(comps) ==
    IF comps = <<>> THEN "" ELSE "/" \o Head(comps) \o JoinComponents(Tail(comps))

\* The path string of a component sequence ("/" for the root).
PathOf(comps) == IF comps = <<>> THEN "/" ELSE JoinComponents(comps)

Front(seq) == SubSeq(seq, 1, Len(seq) - 1)

\* The working directory relative paths are resolved against.
Cwd == "/srv"

Absolute(path) == IF StartsWith(path, "/") THEN path ELSE Cwd \o "/" \o path

\* Walks the components from the canonical directory cur, as the kernel does:
\* every component but the last must lead to a directory, ".." goes to the
\* parent, a link is replaced by its target. None when a node is missing.
RECURSIVE Walk(_, _, _)
Walk(fs, cur, comps) ==
    IF comps = <<>> THEN Some(cur)
    ELSE IF fs[PathOf(cur)].kind # "dir" THEN None
    ELSE IF Head(comps) = ".." THEN Walk(fs, Front(cur), Tail(comps))
    ELSE LET nxt == PathOf(Append(cur, Head(comps))) IN
         IF nxt \notin DOMAIN fs THEN None
         ELSE IF fs[nxt].kind = "link"
              THEN Walk(fs, Components(fs[nxt].data), Tail(comps))
              ELSE Walk(fs, Append(cur, Head(comps)), Tail(comps))

\* Path::canonicalize (realpath): None for the empty path and for a path that
\* does not lead to an existing node.
canonicalize(fs, path) ==
    IF path = "" THEN None
    ELSE With(Walk(fs, <<>>, Components(Absolute(path))),
              LAMBDA w : IF w.some THEN Some(PathOf(w.v)) ELSE None)

\* Path::parent: the path without its last component, None for the root.
path_parent(path) ==
    With(Components(path),
         LAMBDA comps : IF comps = <<>> THEN None ELSE Some(PathOf(Front(comps))))

\* Path::starts_with: whole components of base begin path.
path_starts_with(path, base) ==
    With(<<Components(path), Components(base)>>,
         LAMBDA c : Len(c[2]) <= Len(c[1]) /\ SubSeq(c[1], 1, Len(c[2])) = c[2])

\* Path::join with a relative path (an empty one leaves a trailing separator).
path_join(base, rel) ==
    IF StartsWith(rel, "/") THEN rel
    ELSE IF EndsWith(base, "/") THEN base \o rel ELSE base \o "/" \o rel

\* The node a path names to open(2), unlink(2) and the like, links followed.
Lookup(fs, path) == canonicalize(fs, path)

\* The kind of the node at a path, "none" when the path leads nowhere.
NodeKind(fs, path) ==
    With(Lookup(fs, path), LAMBDA c : IF c.some THEN fs[c.v].kind ELSE "none")

IsFile(fs, path) == NodeKind(fs, path) = "file"

IsDir(fs, path) == NodeKind(fs, path) = "dir"

\* fs::read(path): the contents, None on any error.
fs_read(fs, path) ==
    With(Lookup(fs, path),
         LAMBDA c : IF c.some /\ fs[c.v].kind = "file"
                    THEN Some(fs[c.v].data) ELSE None)

\* The entry named name in the directory the walk reached.
EntryIn(fs, parent, name) ==
    IF ~parent.some \/ fs[PathOf(parent.v)].kind # "dir" THEN None
    ELSE Some(PathOf(Append(parent.v, name)))

\* The node fs::write(path) and fs::remove_file(path) act on: the last
\* component under the resolved parent directory; None when the parent is
\* missing or the path is empty or names no entry.
EntryOf(fs, path) ==
    With(Components(Absolute(path)),
         LAMBDA comps :
            IF path = "" \/ comps = <<>> \/ comps[Len(comps)] = ".." THEN None
            ELSE EntryIn(fs, Walk(fs, <<>>, Front(comps)), comps[Len(comps)]))

\* The file a write to the entry e lands in: a link is written through.
WriteTarget(fs, e) ==
    IF e \in DOMAIN fs /\ fs[e].kind = "link" THEN fs[e].data ELSE e

\* fs::write(path, data): the filesystem afterwards, or None on an error (a
\* missing parent, a directory in the way).
fs_write(fs, path, data) ==
    With(EntryOf(fs, path),
         LAMBDA e :
            IF ~e.some \/ EndsWith(path, "/") THEN None
            ELSE IF WriteTarget(fs, e.v) \in DOMAIN fs
                      /\ fs[WriteTarget(fs, e.v)].kind = "dir"
            THEN None
            ELSE Some([q \in DOMAIN fs \cup {WriteTarget(fs, e.v)} |->
                          IF q = WriteTarget(fs, e.v) THEN File(data) ELSE fs[q]]))

\* fs::remove_file(path): the filesystem afterwards, or None on an error (no
\* such entry, a directory). A link is removed, not its target.
fs_remove_file(fs, path) ==
    With(EntryOf(fs, path),
         LAMBDA e :
            IF ~e.some \/ e.v \notin DOMAIN fs \/ fs[e.v].kind = "dir"
                 \/ EndsWith(path, "/")
            THEN None
            ELSE Some([q \in DOMAIN fs \ {e.v} |-> fs[q]]))

\* [String]::join(sep)
RECURSIVE join(_, _)
join(strs, sep) ==
    IF strs = <<>> THEN ""
    ELSE IF Len(strs) = 1 THEN strs[1]
    ELSE strs[1] \o sep \o join(Tail(strs), sep)

(***************************************************************************)
(* src/utils/cookie.rs: cookies.                                           *)
(***************************************************************************)
Cookie_new(name, value) ==
    [ name |-> name, value |-> value, path |-> None, domain |-> None,
      max_age |-> None, expires |-> None, secure |-> FALSE,
      http_only |-> FALSE, same_site |-> None ]

Cookie_path(cookie, path) == [cookie EXCEPT !.path = Some(path)]

Cookie_max_age(cookie, seconds) == [cookie EXCEPT !.max_age = Some(seconds)]

Cookie_http_only(cookie, http_only) == [cookie EXCEPT !.http_only = http_only]

\* urlencoding::encode leaves these characters as they are.
Unreserved ==
    {At(LowerAlpha, i) : i \in 1..Len(LowerAlpha)}
        \cup {At(UpperAlpha, i) : i \in 1..Len(UpperAlpha)}
        \cup {At(DecDigits, i) : i \in 1..Len(DecDigits)}
        \cup {"-", "_", ".", "~"}

\* The other printable characters and their codes.
PercentChars ==
    << " ", "!", "\"", "#", "$", "%", "&", "'", "(", ")", "*", "+", ",",
       "/", ":", ";", "<", "=", ">", "?", "@", "[", "\\", "]", "^", "{", "|", "}" >>

PercentCodes ==
    << "20", "21", "22", "23", "24", "25", "26", "27", "28", "29", "2A",
       "2B", "2C", "2F", "3A", "3B", "3C", "3D", "3E", "3F", "40", "5B",
       "5C", "5D", "5E", "7B", "7C", "7D" >>

EncodeChar(c) ==
    IF c \in Unreserved THEN c
    ELSE "%" \o PercentCodes[CHOOSE i \in 1..Len(PercentChars) :
                                 PercentChars[i] = c]

\* urlencoding::encode
RECURSIVE urlencoding_encode(_)
urlencoding_encode(s) ==
    IF s = "" THEN ""
    ELSE IF Len(s) = 1 THEN EncodeChar(s)
    ELSE urlencoding_encode(Take(s, Len(s) \div 2))
             \o urlencoding_encode(Drop(s, Len(s) \div 2))

\* Cookie::to_header_value
to_header_value(cookie) ==
    join(<<cookie.name \o "=" \o urlencoding_encode(cookie.value)>>
           \o (IF cookie.path.some THEN <<"Path=" \o cookie.path.v>> ELSE <<>>)
           \o (IF cookie.domain.some THEN <<"Domain=" \o cookie.domain.v>> ELSE <<>>)
           \o (IF cookie.max_age.some
               THEN <<"Max-Age=" \o ToDec(cookie.max_age.v)>> ELSE <<>>)
           \o (IF cookie.expires.some THEN <<"Expires=" \o cookie.expires.v>> ELSE <<>>)
           \o (IF cookie.secure THEN <<"Secure">> ELSE <<>>)
           \o (IF cookie.http_only THEN <<"HttpOnly">> ELSE <<>>)
           \o (IF cookie.same_site.some
               THEN <<"SameSite=" \o cookie.same_site.v>> ELSE <<>>),
         "; ")

\* Cookie::parse: the cookies of a Cookie header value.
RECURSIVE ParseParts(_)
ParseParts(parts) ==
    IF parts = <<>> THEN <<>>
    ELSE With(split_once(trim(Head(parts)), "="),
              LAMBDA nv :
                 (IF trim(Head(parts)) = "" \/ ~nv.some THEN <<>>
                  ELSE <<Cookie_new(trim(nv.v[1]), trim(nv.v[2]))>>)
                     \o ParseParts(Tail(parts)))

Cookie_parse(cookie_string) == ParseParts(split(cookie_string, ";"))

\* The first cookie of the name.
RECURSIVE FirstNamed(_, _)
FirstNamed(cookies, name) ==
    IF cookies = <<>> THEN None
    ELSE IF Head(cookies).name = name THEN Some(Head(cookies).value)
    ELSE FirstNamed(Tail(cookies), name)

extract_session_id(cookie_header) ==
    IF cookie_header.some
    THEN FirstNamed(Cookie_parse(cookie_header.v), "session_id")
    ELSE None

\* Cookie::to_header_pair, which handle_get calls: the header a response
\* carries the cookie in.
to_header_pair(cookie) == <<"Set-Cookie", to_header_value(cookie)>>

(***************************************************************************)
(* src/utils/session.rs: sessions and the session store.  Instants are     *)
(* whole seconds since the store was made; Instant::now() is the clock     *)
(* s_now at the moment of the call.                                        *)
(***************************************************************************)
\* Session::new sets expires_at this many seconds after now.
NEW_EXPIRY_SECS == 3600

\* Session::renew sets expires_at this many seconds after now.
RENEW_SECS == 3600

Session_new(id, now) ==
    [id |-> id,
     user_id |-> None,
     username |-> None,
     created_at |-> now,
     expires_at |-> now + NEW_EXPIRY_SECS,
     data |-> <<>>]

with_user(session, user_id, username) ==
    [session EXCEPT !.user_id = Some(user_id), !.username = Some(username)]

set_data(session, key, value) ==
    [session EXCEPT !.data = (key :> value) @@ @]

get_data(session, key) ==
    IF key \in DOMAIN session.data THEN Some(session.data[key]) ELSE None

\* An is_expired for which the instant of expiry itself does not count.
is_expired_after(session, now) == now > session.expires_at

is_expired(session, now) == now >= session.expires_at

\* An is_logged_in that does not look at the expiry.
is_logged_in_ever(session, now) == session.user_id.some

is_logged_in(session, now) ==
    session.user_id.some /\ ~is_expired(session, now)

renew(session, now) ==
    [session EXCEPT !.expires_at = now + RENEW_SECS]

\* The store is the map of its sessions: id -> Session.
SessionStore_new == [id \in {} |-> None]

insert(sessions, session) ==
    (session.id :> session) @@ sessions

remove(sessions, id) ==
    [k \in DOMAIN sessions \ {id} |-> sessions[k]]

SessionStore_get(sessions, session_id) ==
    IF session_id \in DOMAIN sessions THEN Some(sessions[session_id]) ELSE None

\* An update that stores the session whether its id is present or not.
update_upsert(sessions, session) == <<insert(sessions, session), TRUE>>

\* update: <<the store afterwards, the returned flag>>.
update(sessions, session) ==
    IF session.id \in DOMAIN sessions
    THEN <<insert(sessions, session), TRUE>>
    ELSE <<sessions, FALSE>>

\* destroy: <<the store afterwards, the returned flag>>.
destroy(sessions, session_id) ==
    <<remove(sessions, session_id), session_id \in DOMAIN sessions>>

\* cleanup: <<the store afterwards, the returned count>>.  retain asks
\* is_expired of each session in turn, and each call reads the clock again:
\* at[id] is the instant at which the session id was looked at.
cleanup(sessions, at) ==
    LET kept == {id \in DOMAIN sessions : ~is_expired(sessions[id], at[id])}
        before == Cardinality(DOMAIN sessions)
        after == Cardinality(kept)
    IN  <<[id \in kept |-> sessions[id]], before - after>>

(***************************************************************************)
(* The session step of handle_read_state.                                  *)
(***************************************************************************)
\* The cookie that names the session; it lives as long as a renewed session.
SessionCookie(id) ==
    Cookie_max_age(
        Cookie_http_only(Cookie_path(Cookie_new("session_id", id), "/"), TRUE),
        RENEW_SECS)

\* Uuid::new_v4() for a store no session was taken out of.
FreshSessionId(sessions) == "s" \o ToDec(Cardinality(DOMAIN sessions) + 1)

\* The session the request goes on with: the one its session_id cookie names,
\* visited once more and renewed, or a new one visited once.
SessionFor(found, sessions, now) ==
    IF found.some
    THEN set_data(renew(found.v, now), "visits",
                  With(get_data(found.v, "visits"),
                       LAMBDA n : IF n.some /\ parse_usize(n.v).some
                                  THEN ToDec(parse_usize(n.v).v + 1) ELSE "1"))
    ELSE set_data(Session_new(FreshSessionId(sessions), now), "visits", "1")

\* handle_session: the store afterwards and the cookie for the response.
handle_session(request, sessions, now) ==
    With(With(extract_session_id(HttpHeaders_get(request.headers, "cookie")),
              LAMBDA sid : IF sid.some THEN SessionStore_get(sessions, sid.v)
                           ELSE None),
         LAMBDA found :
            [ sessions |-> insert(sessions, SessionFor(found, sessions, now)),
              cookie |-> SessionCookie(SessionFor(found, sessions, now).id) ])

(***************************************************************************)
(* response.rs: HttpResponseBuilder and the multipart helpers.             *)
(***************************************************************************)
HttpResponseBuilder_new(status_code, status_text) ==
    [ status_code |-> status_code, status_text |-> status_text,
      headers |-> HttpHeaders_new, body |-> "" ]

Builder_header(b, key, value) ==
    [b EXCEPT !.headers = HttpHeaders_insert(@, key, value)]

Builder_body(b, data) == [b EXCEPT !.body = data]

\* HttpResponseBuilder::cookie: the response carries the cookie.
Builder_cookie(b, cookie) ==
    Builder_header(b, to_header_pair(cookie)[1], to_header_pair(cookie)[2])

\* The header lines in one iteration order of the map.
RECURSIVE RenderHeaders(_)
RenderHeaders(h) ==
    IF DOMAIN h = {} THEN ""
    ELSE LET k == CHOOSE k \in DOMAIN h : TRUE IN
         k \o ": " \o h[k] \o "\r\n"
           \o RenderHeaders([j \in DOMAIN h \ {k} |-> h[j]])

Builder_build(b) ==
    LET h == HttpHeaders_insert(b.headers, "Content-Length", ToDec(Len(b.body))) IN
    "HTTP/1.1 " \o b.status_code \o " " \o b.status_text \o "\r\n"
        \o RenderHeaders(h) \o "\r\n" \o b.body

ok == HttpResponseBuilder_new("200", "OK")

created == HttpResponseBuilder_new("201", "Created")

not_found == HttpResponseBuilder_new("404", "Not Found")

method_not_allowed == HttpResponseBuilder_new("405", "Method Not Allowed")

no_content == HttpResponseBuilder_new("204", "No Content")

internal_error == HttpResponseBuilder_new("500", "Internal Server Error")

bad_request == HttpResponseBuilder_new("400", "Bad Request")

unsupported_media_type == HttpResponseBuilder_new("415", "Unsupported Media Type")

\* serve_error_page: the configured page if it can be read, else the bare status.
serve_error_page(fs, error_page_path, status_code, status_text, cookie) ==
    With(fs_read(fs, error_page_path),
         LAMBDA content :
            Builder_build(Builder_cookie(
                IF content.some
                THEN Builder_body(
                         Builder_header(
                             HttpResponseBuilder_new(status_code, status_text),
                             "Content-Type", "text/html"), content.v)
                ELSE HttpResponseBuilder_new(status_code, status_text),
                cookie)))

\* The first error page configured for the code.
RECURSIVE FindErrorPage(_, _)
FindErrorPage(error_pages, code) ==
    IF error_pages = <<>> THEN None
    ELSE IF Head(error_pages).code = code THEN Some(Head(error_pages).path)
    ELSE FindErrorPage(Tail(error_pages), code)

get_error_page_path(server, status_code) ==
    With(FindErrorPage(server.error_pages, status_code),
         LAMBDA ep : IF ep.some THEN ep.v
                     ELSE "./error_pages/" \o status_code \o ".html")

\* The page handle_method_not_allowed reads.
MethodNotAllowedPage(server) ==
    With(FindErrorPage(server.error_pages, "405"),
         LAMBDA ep : IF ep.some THEN ep.v ELSE "./errors_pages/405.html")

handle_method_not_allowed(fs, allowed_methods, server, cookie) ==
    With(fs_read(fs, MethodNotAllowedPage(server)),
         LAMBDA content :
            Builder_build(Builder_cookie(Builder_body(
                Builder_header(
                    Builder_header(method_not_allowed, "Allow",
                                   join(allowed_methods, ", ")),
                    "Content-Type",
                    IF content.some THEN "text/html" ELSE "text/plain"),
                IF content.some THEN content.v ELSE "Method Not Allowed"),
                cookie)))

\* The entries of a directory in one order of read_dir.
RECURSIVE ListingItems(_, _)
ListingItems(names, route_path) ==
    IF names = {} THEN ""
    ELSE LET n == CHOOSE n \in names : TRUE IN
         "<li><a href=\"" \o route_path \o "\\" \o n \o "\">" \o n \o "</a></li>"
           \o ListingItems(names \ {n}, route_path)

\* The names of the entries of the directory at path (none when it is not one).
read_dir(fs, path) ==
    With(canonicalize(fs, path),
         LAMBDA c :
            IF ~c.some \/ fs[c.v].kind # "dir" THEN {}
            ELSE {With(Components(q), LAMBDA qc : qc[Len(qc)]) :
                     q \in {q \in DOMAIN fs :
                               q # "/" /\ path_parent(q) = Some(c.v)}})

serve_directory_listing(fs, dir_path, route_path, cookie) ==
    Builder_build(Builder_cookie(Builder_body(ok,
        "<html><body><h1>Directory Listing</h1><ul>"
          \o ListingItems(read_dir(fs, dir_path), route_path)
          \o "</ul></body></html>"), cookie))

\* str::trim_end_matches(pat) and str::trim_start_matches(pat)
RECURSIVE trim_end_matches(_, _)
trim_end_matches(s, pat) ==
    IF EndsWith(s, pat) /\ pat # ""
    THEN trim_end_matches(Take(s, Len(s) - Len(pat)), pat) ELSE s

RECURSIVE trim_start_matches(_, _)
trim_start_matches(s, pat) ==
    IF StartsWith(s, pat) /\ pat # ""
    THEN trim_start_matches(Drop(s, Len(pat)), pat) ELSE s

\* write_file: the filesystem afterwards and the response.
write_file(fs, path, data, cookie) ==
    With(fs_write(fs, path, data),
         LAMBDA w :
            IF w.some
            THEN [ fs |-> w.v, written |-> TRUE,
                   response |-> Builder_build(Builder_cookie(Builder_body(
                       Builder_header(ok, "Content-Type", "text/plain"),
                       "Upload successful"), cookie)) ]
            ELSE [ fs |-> fs, written |-> FALSE,
                   response |-> Builder_build(Builder_cookie(Builder_body(
                       internal_error,
                       IF path = "" \/ ~EntryOf(fs, path).some
                       THEN "No such file or directory (os error 2)"
                       ELSE "Is a directory (os error 21)"), cookie)) ])

\* The first piece satisfying the test, None when there is none.
FindFirst(pieces, Test(_)) ==
    LET hits == {i \in 1..Len(pieces) : Test(pieces[i])} IN
    IF hits = {} THEN None
    ELSE Some(pieces[CHOOSE i \in hits : \A j \in hits : i <= j])

extract_boundary(content_type) ==
    With(FindFirst(split(content_type, ";"),
                   LAMBDA x : StartsWith(trim(x), "boundary=")),
         LAMBDA f : IF f.some THEN Some(trim_start_matches(trim(f.v), "boundary="))
                    ELSE None)

\* str::lines: split at "\n", a trailing "\r" of each line and a final empty
\* line removed.
lines(s) ==
    With(With(split(s, "\n"),
              LAMBDA raw : IF raw[Len(raw)] = "" THEN Front(raw) ELSE raw),
         LAMBDA kept :
            [i \in 1..Len(kept) |->
                IF EndsWith(kept[i], "\r") THEN Take(kept[i], Len(kept[i]) - 1)
                ELSE kept[i]])

\* The first position of one of the characters, 0 when there is none.
FindAny(s, chars) ==
    LET hits == {i \in 1..Len(s) : At(s, i) \in chars} IN
    IF hits = {} THEN 0 ELSE CHOOSE i \in hits : \A j \in hits : i <= j

\* The name in a Content-Disposition line: filename="..." if present, else
\* the unquoted filename= up to ';' or the end of the line.
FilenameIn(line) ==
    IF Find(line, "filename=\"") # 0
    THEN With(Drop(line, Find(line, "filename=\"") + 9),
              LAMBDA rest : IF Find(rest, "\"") = 0 THEN None
                            ELSE Some(Take(rest, Find(rest, "\"") - 1)))
    ELSE IF Find(line, "filename=") # 0
    THEN With(Drop(line, Find(line, "filename=") + 8),
              LAMBDA rest :
                 Some(trim(IF FindAny(rest, {";", "\r", "\n"}) = 0 THEN rest
                           ELSE Take(rest, FindAny(rest, {";", "\r", "\n"}) - 1))))
    ELSE None

extract_filename_from_disposition(part) ==
    With(FindFirst(lines(part), LAMBDA l : Contains(l, "Content-Disposition")),
         LAMBDA dl : IF dl.some THEN FilenameIn(dl.v) ELSE None)

\* The (filename, bytes) pair of one part, None for a part that is skipped.
MultipartFile(part) ==
    With(extract_filename_from_disposition(part),
         LAMBDA filename :
            IF ~Contains(part, "Content-Disposition") \/ ~filename.some
                 \/ Find(part, "\r\n\r\n") = 0
            THEN None
            ELSE Some(<<filename.v,
                        trim_end_matches(
                            trim_end_matches(
                                Drop(part, Find(part, "\r\n\r\n") + 3), "\r\n"),
                            "--")>>))

RECURSIVE CollectFiles(_)
CollectFiles(parts) ==
    IF parts = <<>> THEN <<>>
    ELSE With(MultipartFile(Head(parts)),
              LAMBDA f : IF f.some THEN <<f.v>> ELSE <<>>)
           \o CollectFiles(Tail(parts))

\* extract_multipart_files: the bytes found for a part are those of its data,
\* located again in the body.
extract_multipart_files(body, boundary) ==
    IF Contains(body, BadByte) THEN <<>>
    ELSE CollectFiles(split(body, "--" \o boundary))

(***************************************************************************)
(* server.rs, handler.rs, cgi.rs: from a parsed request to a response       *)
(***************************************************************************)
\* One filesystem or process operation a handler made on a path it derived
\* from the request, and whether it succeeded.
FsOp(op, path, done_ok) == [op |-> op, path |-> path, ok |-> done_ok]

extract_hostname(headers) ==
    With(HttpHeaders_get(headers, "host"),
         LAMBDA h : IF h.some THEN split(h.v, ":")[1] ELSE "")

select_server(listener_info, hostname) ==
    With(FindFirst(listener_info.servers,
                   LAMBDA srv : srv.server_name = hostname),
         LAMBDA f : IF f.some THEN f.v
                    ELSE listener_info.servers[
                             listener_info.default_server_index + 1])

\* A filter that takes any route whose path begins the request path.
RouteMatches_prefix(route, request_path) ==
    route.path = "/" \/ StartsWith(request_path, route.path)

RouteMatches(route, request_path) ==
    \/ route.path = "/"
    \/ request_path = route.path
    \/ StartsWith(request_path, route.path \o "/")

\* The last of the matching routes with the longest path (Iterator::max_by_key).
find_matching_route(server, request_path) ==
    LET cands == {i \in 1..Len(server.routes) :
                     RouteMatches(server.routes[i], request_path)}
    IN  IF cands = {} THEN None
        ELSE Some(server.routes[
                 CHOOSE i \in cands : \A j \in cands :
                     \/ Len(server.routes[j].path) < Len(server.routes[i].path)
                     \/ /\ Len(server.routes[j].path) = Len(server.routes[i].path)
                        /\ j <= i])

\* str::strip_prefix(prefix).unwrap_or("")
strip_prefix_or_empty(s, prefix) ==
    IF StartsWith(s, prefix) THEN Drop(s, Len(prefix)) ELSE ""

\* The containment test on a canonical (or not yet existing) path.
Contained(path, base_path) == path_starts_with(path, base_path)

\* The Err branch of resolve_file_path: the path does not exist, its parent
\* must and must lie in the base directory.
ResolveMissing(base_path, full_path, parent, canonical_parent) ==
    IF ~parent.some \/ ~canonical_parent.some THEN None
    ELSE IF ~Contained(canonical_parent.v, base_path) THEN None
    ELSE IF Contained(full_path, base_path) THEN Some(full_path) ELSE None

\* resolve_file_path once the base directory is canonical.
ResolveUnder(fs, base_path, full_path, canon) ==
    IF canon.some
    THEN IF Contained(canon.v, base_path) THEN canon ELSE None
    ELSE With(path_parent(full_path),
              LAMBDA parent :
                 ResolveMissing(base_path, full_path, parent,
                     IF parent.some THEN canonicalize(fs, parent.v) ELSE None))

\* The path joined to the base directory: the request path without the route
\* path and without leading slashes.
RelativePath(route, request_path) ==
    trim_start_matches(strip_prefix_or_empty(request_path, route.path), "/")

resolve_file_path(fs, server, route, request_path) ==
    With(canonicalize(fs, server.root \o "/" \o route.root),
         LAMBDA base_path :
            IF ~base_path.some THEN None
            ELSE With(path_join(base_path.v, RelativePath(route, request_path)),
                      LAMBDA full_path :
                         ResolveUnder(fs, base_path.v, full_path,
                                      canonicalize(fs, full_path))))

\* A should_keep_alive that keeps every connection.
should_keep_alive_always(request) == TRUE

should_keep_alive(request) ==
    With(HttpHeaders_get(request.headers, "connection"),
         LAMBDA v : IF v.some THEN to_lowercase(v.v) = "keep-alive" ELSE FALSE)

\* FileResponse::new(path): None when File::open fails.
FileResponse_open(fs, path) ==
    With(Lookup(fs, path),
         LAMBDA c :
            IF ~c.some THEN None
            ELSE IF fs[c.v].kind = "file"
            THEN Some(FileResponse_new(path, fs[c.v].data))
            ELSE Some(FileResponse_new_dir(path)))

\* str::trim_matches('/')
trim_slashes(s) == trim_end_matches(trim_start_matches(s, "/"), "/")

\* The file at the path as a response, 404 when it cannot be opened.
FileOr404(path, f, missing) ==
    [ response |-> IF f.some THEN f.v
                   ELSE SimpleResponse_new(Builder_build(missing)),
      ops |-> <<FsOp("read", path, f.some)>> ]

\* handle_get with the route found for the trimmed request path.
GetOnRoute(fs, request_path, server, route, cookie) ==
    IF route.some /\ route.v.list_directory = Some(TRUE)
    THEN [ response |-> SimpleResponse_new(
               serve_directory_listing(fs, server.root \o "/" \o route.v.root,
                                       route.v.path, cookie)),
           ops |-> <<FsOp("read", server.root \o "/" \o route.v.root,
                          IsDir(fs, server.root \o "/" \o route.v.root))>> ]
    ELSE IF route.some /\ route.v.default_file.some
    THEN With(server.root \o "/" \o route.v.root \o "/" \o route.v.default_file.v,
              LAMBDA full_path :
                 FileOr404(full_path, FileResponse_open(fs, full_path),
                           Builder_header(not_found, to_header_pair(cookie)[1],
                                          to_header_pair(cookie)[2])))
    ELSE FileOr404(request_path, FileResponse_open(fs, request_path), not_found)

\* handle_get: the response producer and the operations made.
handle_get(fs, request_path, server, request, cookie) ==
    With(trim_slashes(request.path),
         LAMBDA path :
            GetOnRoute(fs, request_path, server,
                FindFirst(server.routes,
                          LAMBDA r : trim_slashes(r.path) = path),
                cookie))

\* A handle_delete that answers 204 whether or not a file was removed.
handle_delete_blind(fs, file_path, error_page_path, cookie) ==
    With(fs_remove_file(fs, file_path),
         LAMBDA r :
            [ response |-> Builder_build(no_content),
              fs |-> IF r.some THEN r.v ELSE fs,
              ops |-> <<FsOp("remove", file_path, r.some)>> ])

\* handle_delete: the response bytes, the filesystem afterwards, the operations.
handle_delete(fs, file_path, error_page_path, cookie) ==
    With(fs_remove_file(fs, file_path),
         LAMBDA r :
            IF r.some
            THEN [ response |-> Builder_build(no_content), fs |-> r.v,
                   ops |-> <<FsOp("remove", file_path, TRUE)>> ]
            ELSE [ response |-> serve_error_page(fs, error_page_path,
                                                 "404", "Not Found", cookie),
                   fs |-> fs, ops |-> <<FsOp("remove", file_path, FALSE)>> ])

\* Where a file of a multipart upload is saved.
MultipartSavePath(file_path, filename) ==
    IF EndsWith(file_path, "/") THEN file_path \o filename
    ELSE file_path \o "/" \o filename

\* The loop of handle_post over the extracted files: stops at the first write
\* answered with 500 or 4xx, else 201 with the names saved.
RECURSIVE SaveFiles(_, _, _, _, _, _)
SaveFiles(fs, file_path, files, saved, ops, cookie) ==
    IF files = <<>>
    THEN [ response |-> Builder_build(Builder_body(created,
               "Successfully uploaded " \o ToDec(Len(saved)) \o " file(s): "
                   \o join(saved, ", "))),
           fs |-> fs, ops |-> ops ]
    ELSE With(write_file(fs, MultipartSavePath(file_path, Head(files)[1]),
                         Head(files)[2], cookie),
              LAMBDA w :
                 IF StartsWith(w.response, "HTTP/1.1 500")
                      \/ StartsWith(w.response, "HTTP/1.1 4")
                 THEN [ response |-> w.response, fs |-> w.fs,
                        ops |-> Append(ops, FsOp("write",
                            MultipartSavePath(file_path, Head(files)[1]),
                            w.written)) ]
                 ELSE SaveFiles(w.fs, file_path, Tail(files),
                          Append(saved, Head(files)[1]),
                          Append(ops, FsOp("write",
                              MultipartSavePath(file_path, Head(files)[1]),
                              w.written)),
                          cookie))

DirectUploadTypes ==
    {"application/", "image/", "audio/", "video/", "font/", "text/"}

\* A handler's answer that touches no file.
Reply(fs, b, text) ==
    [response |-> Builder_build(Builder_body(b, text)), fs |-> fs, ops |-> <<>>]

\* The name a direct upload is given: the last segment of the request path if
\* it has a dot, else upload_<uuid>.<subtype>.
DirectFilename(request_path, content_type, uuid) ==
    With(<<split(request_path, "/"), split(content_type, "/")>>,
         LAMBDA sp :
            IF Contains(sp[1][Len(sp[1])], ".") /\ sp[1][Len(sp[1])] # ""
            THEN sp[1][Len(sp[1])]
            ELSE "upload_" \o uuid \o "."
                     \o (IF Len(sp[2]) >= 2 THEN sp[2][2] ELSE "dat"))

\* The direct upload of handle_post.
DirectUpload(fs, save_path, data, cookie) ==
    With(write_file(fs, save_path, data, cookie),
         LAMBDA w : [ response |-> w.response, fs |-> w.fs,
                      ops |-> <<FsOp("write", save_path, w.written)>> ])

\* The multipart upload of handle_post.
MultipartUpload(fs, file_path, data, boundary, cookie) ==
    IF ~boundary.some THEN Reply(fs, bad_request, "Missing multipart boundary")
    ELSE With(extract_multipart_files(data, boundary.v),
              LAMBDA files :
                 IF files = <<>>
                 THEN Reply(fs, bad_request,
                            "Invalid multipart body or no files found")
                 ELSE SaveFiles(fs, file_path, files, <<>>, <<>>, cookie))

\* handle_post. The request body is a Vec in request.rs and an Option in the
\* handlers; an empty body is taken for the absent one. uuid is the value
\* Uuid::new_v4 returns.
handle_post(fs, file_path, request, uuid, cookie) ==
    With(HttpHeaders_get(request.headers, "content-type"),
         LAMBDA content_type :
            IF request.body = "" THEN Reply(fs, bad_request, "Empty body")
            ELSE IF ~content_type.some
            THEN Reply(fs, bad_request, "Missing Content-Type")
            ELSE IF \E t \in DirectUploadTypes : StartsWith(content_type.v, t)
            THEN DirectUpload(fs,
                     IF EndsWith(file_path, "/")
                     THEN file_path
                              \o DirectFilename(request.path, content_type.v, uuid)
                     ELSE file_path,
                     request.body, cookie)
            ELSE IF StartsWith(content_type.v, "multipart/form-data")
            THEN MultipartUpload(fs, file_path, request.body,
                                 extract_boundary(content_type.v), cookie)
            ELSE Reply(fs, unsupported_media_type, "Unsupported Content-Type"))

\* send_error_response of cgi.rs
send_error_response(status_code, message) ==
    Builder_build(Builder_body(
        Builder_header(HttpResponseBuilder_new(status_code, message),
                       "Content-Type", "text/html"),
        "<html><body><h1>" \o status_code \o " Error</h1><p>" \o message
            \o "</p></body></html>"))

CgiInterpreters == {".py", ".php", ".sh", ".pl"}

\* The interpreter run_cgi picks for a route's extension.
Interpreter(ext) ==
    CASE ext = ".py" -> "python3" [] ext = ".php" -> "php"
      [] ext = ".sh" -> "bash" [] ext = ".pl" -> "perl"

\* CgiContext::from_request
CgiContext_from_request(request) ==
    With(split_once(request.path, "?"),
         LAMBDA so :
            [ method       |-> request.method,
              path         |-> IF so.some THEN so.v[1] ELSE request.path,
              query_string |-> IF so.some THEN so.v[2] ELSE "",
              headers      |-> request.headers,
              body         |-> request.body ])

\* str::replace(from, to)
replace(s, from, to) == join(split(s, from), to)

\* The environment run_cgi gives the interpreter.
CgiEnv(context, script_path) ==
    [ name \in {"REQUEST_METHOD", "QUERY_STRING", "SCRIPT_FILENAME", "PATH_INFO",
                "SERVER_PROTOCOL", "GATEWAY_INTERFACE"} |->
        CASE name = "REQUEST_METHOD"    -> context.method
          [] name = "QUERY_STRING"      -> context.query_string
          [] name = "SCRIPT_FILENAME"   -> script_path
          [] name = "PATH_INFO"         -> context.path
          [] name = "SERVER_PROTOCOL"   -> "HTTP/1.1"
          [] name = "GATEWAY_INTERFACE" -> "CGI/1.1" ]
    @@ [ name \in {"HTTP_" \o replace(to_uppercase(k), "-", "_") :
                      k \in DOMAIN context.headers} |->
           context.headers[CHOOSE k \in DOMAIN context.headers :
               name = "HTTP_" \o replace(to_uppercase(k), "-", "_")] ]

\* The interpreter started on a script: the command, its argument and its
\* environment, and whether the script ran.
CgiExec(route, context, script_path, ran_ok) ==
    [ op |-> "exec", path |-> script_path, ok |-> ran_ok,
      interpreter |-> Interpreter(route.cgi.v),
      env |-> CgiEnv(context, script_path) ]

\* run_cgi: the response set on the connection, the value returned, and the
\* execution made. child tells how the process goes: whether the spawn, the
\* write of the body to its stdin and the wait succeed, whether the script
\* exits with success (it cannot when the interpreter finds no script at the
\* path), and what it printed.
run_cgi(fs, route, request, script_path, child) ==
    LET fail(message, ret, ran) ==
            [ response |-> send_error_response("500", message), ret |-> ret,
              ops |-> IF ran THEN <<CgiExec(route, CgiContext_from_request(request),
                                            script_path, IsFile(fs, script_path))>>
                      ELSE <<>> ]
    IN  IF ~route.cgi.some \/ route.cgi.v \notin CgiInterpreters
        THEN fail("Unsupported CGI extension", FALSE, FALSE)
        ELSE IF ~child.spawn THEN fail("Failed to start CGI script", FALSE, FALSE)
        ELSE IF request.method = "POST" /\ request.body # "" /\ ~child.stdin
        THEN fail("Failed to send data to CGI script", FALSE, TRUE)
        ELSE IF ~child.wait THEN fail("CGI process error", FALSE, TRUE)
        ELSE IF child.success /\ IsFile(fs, script_path)
        THEN [ response |-> Builder_build(Builder_body(
                   Builder_header(HttpResponseBuilder_new("200", "OK"),
                                  "Content-Type", "text/html"), child.stdout)),
               ret |-> TRUE,
               ops |-> <<CgiExec(route, CgiContext_from_request(request),
                                 script_path, TRUE)>> ]
        ELSE fail("CGI script execution failed", TRUE, TRUE)

\* HttpResponseBuilder::redirect(target)
redirect(target) ==
    Builder_header(HttpResponseBuilder_new("302", "Found"), "Location", target)

\* A response held in memory, no file touched.
Simple(bytes, fs, ops) ==
    [response |-> SimpleResponse_new(bytes), fs |-> fs, ops |-> ops, ret |-> TRUE]

\* The method handlers of handle_read_state on the resolved path.
MethodHandler(fs, server, route, request, file_path, env, cookie) ==
    CASE request.method = "GET" ->
            With(handle_get(fs, file_path, server, request, cookie),
                 LAMBDA g : [ response |-> g.response, fs |-> fs, ops |-> g.ops,
                              ret |-> TRUE ])
      [] request.method = "POST" ->
            With(handle_post(fs, file_path, request, env.uuid, cookie),
                 LAMBDA r : Simple(r.response, r.fs, r.ops))
      [] request.method = "DELETE" ->
            With(handle_delete(fs, file_path, get_error_page_path(server, "404"),
                               cookie),
                 LAMBDA r : Simple(r.response, r.fs, r.ops))
      [] OTHER ->
            Simple(handle_method_not_allowed(fs, route.methods, server, cookie),
                   fs, <<>>)

\* handle_read_state on a route whose method gate the request passed: the CGI
\* bridge if the path ends in the route's extension, else the method handler.
OnResolved(fs, server, route, request, file_path, env, cookie) ==
    IF route.cgi.some /\ EndsWith(request.path, route.cgi.v)
    THEN With(run_cgi(fs, route, request, file_path, env.child),
              LAMBDA c : [ response |-> SimpleResponse_new(c.response),
                           fs |-> fs, ops |-> c.ops, ret |-> c.ret ])
    ELSE MethodHandler(fs, server, route, request, file_path, env, cookie)

\* A handle_read_state that looks at the methods before the redirect.
OnRoute_gate_first(fs, server, route, request, env, cookie) ==
    IF \A i \in 1..Len(route.methods) :
            HttpMethod_from_str(route.methods[i]) # request.method
    THEN Simple(handle_method_not_allowed(fs, route.methods, server, cookie),
                fs, <<>>)
    ELSE IF route.redirect.some THEN Simple(Builder_build(Builder_cookie(redirect(route.redirect.v), cookie)),
                fs, <<>>)
    ELSE OnResolved(fs, server, route, request,
             With(resolve_file_path(fs, server, route, request.path),
                  LAMBDA resolved : IF resolved.some THEN resolved.v ELSE ""),
             env, cookie)

\* handle_read_state on the route matched.
OnRoute(fs, server, route, request, env, cookie) ==
    IF route.redirect.some THEN Simple(Builder_build(Builder_cookie(redirect(route.redirect.v), cookie)),
                fs, <<>>)
    ELSE IF \A i \in 1..Len(route.methods) :
                HttpMethod_from_str(route.methods[i]) # request.method
    THEN Simple(handle_method_not_allowed(fs, route.methods, server, cookie),
                fs, <<>>)
    ELSE OnResolved(fs, server, route, request,
             With(resolve_file_path(fs, server, route, request.path),
                  LAMBDA resolved : IF resolved.some THEN resolved.v ELSE ""),
             env, cookie)

\* handle_read_state on the server selected.
OnServer(fs, selected_server, selected_route, request, env, cookie) ==
    IF ~selected_route.some
    THEN Simple(serve_error_page(fs, get_error_page_path(selected_server, "404"),
                                 "404", "Not Found", cookie), fs, <<>>)
    ELSE OnRoute(fs, selected_server, selected_route.v, request, env, cookie)

\* The part of handle_read_state after the request is complete: the response
\* producer put on the connection, the filesystem afterwards, the operations
\* made, the session store afterwards, and the value returned (TRUE for
\* Some(true), FALSE for None). env holds what the environment decides: how
\* a CGI child goes, the uuid drawn for an upload name and the instant on the
\* clock.
Routed(fs, selected_server, request, env, cookie) ==
    OnServer(fs, selected_server,
             find_matching_route(selected_server, request.path),
             request, env, cookie)

dispatch(fs, sessions, listener_info, request, env) ==
    With(handle_session(request, sessions, env.now),
         LAMBDA hs :
            [sessions |-> hs.sessions]
                @@ Routed(fs,
                          select_server(listener_info,
                                        extract_hostname(request.headers)),
                          request, env, hs.cookie))

(***************************************************************************)
(* The parser fed one request in consecutive pieces.                       *)
(***************************************************************************)
VARIABLES
    p_input,    \* the bytes of the request R
    p_rest,     \* the bytes of R not yet passed to append
    p_parser,   \* the HttpRequestBuilder
    p_res       \* the result of the last append ("none" before the first)

pvars == <<p_input, p_rest, p_parser, p_res>>

\* Requests of at most this many bytes are cut at every byte position.
MaxFineLen == 80

\* Longer requests are cut into pieces of this size, the rest being fed whole
\* at any point.
CoarsePiece == 7

ReqNoBody == "GET /a?x=1&y=2 HTTP/1.1\r\nHost: h\r\n\r\n"

ReqFixed == "POST /u HTTP/1.1\r\nContent-Length: 3\r\n\r\nabc"

ReqChunked ==
    "POST /u HTTP/1.1\r\nTransfer-Encoding: chunked\r\n\r\n2\r\nab\r\n1\r\nc\r\n0\r\n\r\n"

\* The payloads of the chunks of ReqChunked, concatenated.
ReqChunkedPayload == "abc"

\* The header lines hlo:v .. hhi:v.
RECURSIVE HeaderLines(_, _)
HeaderLines(lo, hi) ==
    IF lo > hi THEN ""
    ELSE IF lo = hi THEN "h" \o ToDec(lo) \o ":v\r\n"
    ELSE HeaderLines(lo, (lo + hi) \div 2) \o HeaderLines((lo + hi) \div 2 + 1, hi)

\* A request with n header lines of pairwise different names.
ReqHeaders(n) == "GET / HTTP/1.1\r\n" \o HeaderLines(1, n) \o "\r\n"

CountedRequests ==
    {ReqHeaders(n) : n \in MAX_HEADER_COUNT..(MAX_HEADER_COUNT + 2)}

\* n copies of s.
RECURSIVE Rep(_, _)
Rep(s, n) ==
    IF n <= 0 THEN ""
    ELSE IF n = 1 THEN s
    ELSE Rep(s, n \div 2) \o Rep(s, n - (n \div 2))

\* A request whose only header line is n bytes long (CRLF not counted) and
\* begins, after the name, with the bytes lead.
ReqLongLine(n, lead) ==
    "GET / HTTP/1.1\r\nk:" \o lead \o Rep("v", n - 2 - Len(lead)) \o "\r\n\r\n"

\* Requests with a header line longer than MAX_HEADER_SIZE: all of it text,
\* or with a byte that is not UTF-8 in it.
OverlongRequests ==
    {ReqLongLine(MAX_HEADER_SIZE + 1, lead) : lead \in {"", BadByte}}

LongRequests == {ReqLongLine(MAX_HEADER_SIZE, "")} \cup OverlongRequests

\* The spellings of the chunked transfer coding a client may send.
ChunkedSpellings == {"chunked", "Chunked"}

\* A request that declares its body both ways, Transfer-Encoding first.
ReqChunkedThenLength(te) ==
    "POST /u HTTP/1.1\r\nTransfer-Encoding: " \o te
        \o "\r\nContent-Length: 3\r\n\r\n3\r\nabc\r\n0\r\n\r\n"

\* A request that declares its body both ways, Content-Length first.
ReqLengthThenChunked(te) ==
    "POST /u HTTP/1.1\r\nContent-Length: 3\r\nTransfer-Encoding: " \o te
        \o "\r\n\r\nabc"

ChunkedFirstRequests == {ReqChunkedThenLength(te) : te \in ChunkedSpellings}

LengthFirstRequests == {ReqLengthThenChunked(te) : te \in ChunkedSpellings}

\* A request with a header line that has no colon.
ReqBadHeader == "GET / HTTP/1.1\r\nbad\r\nHost: h\r\n\r\n"

\* A chunked upload whose second chunk-size line is a negative number.
NegativeChunkRequest ==
    "POST /files/n.txt HTTP/1.1\r\nTransfer-Encoding: chunked\r\n\r\n"
        \o "3\r\nabc\r\n-1\r\n"

\* Bytes without any CRLF, one more than MAX_HEADER_SIZE of them.
NoLineBytes == Rep("v", MAX_HEADER_SIZE + 1)

\* A request line followed by a header line that does not end.
NoLineHeader == "GET / HTTP/1.1\r\nk:" \o NoLineBytes

ParserInputs ==
    {ReqNoBody, ReqFixed, ReqChunked, ReqBadHeader, NoLineBytes, NoLineHeader,
     NegativeChunkRequest}
        \cup CountedRequests
        \cup LongRequests \cup ChunkedFirstRequests \cup LengthFirstRequests

\* The size of the buffer read_request reads into.
READ_BUFFER_SIZE == 2048

\* A request longer than one read arrives in full reads, or the rest of it at
\* once, or all of it but the last two bytes.
PieceSizes(rest, whole) ==
    IF Len(whole) <= MaxFineLen THEN 1..Len(rest)
    ELSE IF Len(whole) <= READ_BUFFER_SIZE
    THEN {Min(CoarsePiece, Len(rest)), Len(rest)} \ {0}
    ELSE {k \in {Min(READ_BUFFER_SIZE, Len(rest)), Len(rest), Len(rest) - 2} : k > 0}

ParserStart ==
    /\ p_input \in ParserInputs
    /\ p_rest = p_input
    /\ p_parser = HttpRequestBuilder_new
    /\ p_res = "none"

\* The parser variables in the specifications that do not use them.
ParserIdle ==
    /\ p_input = ""
    /\ p_rest = ""
    /\ p_parser = HttpRequestBuilder_new
    /\ p_res = "none"

\* One call append(piece) with the next k bytes of the request; the caller
\* (read_request) stops feeding a parser whose append failed, and a panic ends
\* the process.
Feed(k, overflow_checks) ==
    /\ p_res \in {"none", "Ok"}
    /\ LET r == append(p_parser, Take(p_rest, k), overflow_checks) IN
         /\ p_parser' = r.p
         /\ p_res' = r.ctl
    /\ p_rest' = Drop(p_rest, k)
    /\ UNCHANGED p_input

\* The results of append that are an Err.
IsErr(res) == res \notin {"none", "Ok", "panic"}

\* A caller that goes on after an Err: one more call append(piece); p_res keeps
\* the first error.
FeedAfterError(k, overflow_checks) ==
    /\ IsErr(p_res)
    /\ p_parser' = append(p_parser, Take(p_rest, k), overflow_checks).p
    /\ p_rest' = Drop(p_rest, k)
    /\ UNCHANGED <<p_input, p_res>>

(***************************************************************************)
(* One FileResponse drained to a socket by repeated write_response calls.  *)
(***************************************************************************)
VARIABLES
    f_resp,     \* the FileResponse
    f_out,      \* the bytes the client has received
    f_ret,      \* what the last write_response returned
    f_short     \* whether some write was partial or would have blocked

fvars == <<f_resp, f_out, f_ret, f_short>>

\* Files of up to this many bytes are streamed.
MaxFileLen == 3

FileContents == {Take("abcdefghijklmnopqrstuvwxyz", n) : n \in 0..MaxFileLen}

FileStart ==
    /\ \E c \in FileContents : f_resp = FileResponse_new("/srv/files/a.txt", c)
    /\ f_out = ""
    /\ f_ret = Some(TRUE)
    /\ f_short = FALSE

FileIdle ==
    /\ f_resp = SimpleResponse_new("")
    /\ f_out = ""
    /\ f_ret = Some(TRUE)
    /\ f_short = FALSE

\* One call of write_response on the producer; the write loop goes on calling
\* it until the connection is dropped (None).
FileWrite(e) ==
    /\ f_ret.some
    /\ LET w == write_response(f_resp, e.rd, e.wr) IN
         /\ f_resp' = w.resp
         /\ f_out' = f_out \o w.sent
         /\ f_ret' = w.ret
         /\ LET f == fill_if_needed(f_resp, e.rd)
                offered == IF f.some THEN peek(f.v) ELSE ""
            IN  f_short' = (f_short \/ (w.ret.some /\ Len(w.sent) < Len(offered)))

(***************************************************************************)
(* server.rs: the per-connection state machine                             *)
(***************************************************************************)
CONNECTION_TOKEN_START == 10000

\* The SocketStatus of a connection as accept builds it (its ttl stamp is kept
\* beside it, in SocketData_new).
SocketStatus_new ==
    [status |-> "Read", request |-> HttpRequestBuilder_new, response |-> None]

\* The result of one call of Server::handle: the connection afterwards, the
\* bytes still unread in the socket, the filesystem, the session store, the
\* Option<bool> returned ("true", "false" or "none"), or "panic" when the call
\* unwound instead of returning, and the bytes written to the socket.
Handled(conn, avail, fs, sessions, ret, sent) ==
    [conn |-> conn, avail |-> avail, fs |-> fs, sessions |-> sessions,
     ret |-> ret, sent |-> sent]

\* The loop of read_request: each stream.read takes up to READ_BUFFER_SIZE of
\* the bytes that arrived and appends them; it ends when the request is done
\* ("true"), when nothing is left to read ("false", would block), or at the
\* end of the stream or a parse error ("none"); a panic of append unwinds
\* through it ("panic").
RECURSIVE read_request(_, _, _, _)
read_request(parser, avail, eof, overflow_checks) ==
    IF avail = ""
    THEN [parser |-> parser, avail |-> avail, ret |-> IF eof THEN "none" ELSE "false"]
    ELSE With(append(parser, Take(avail, Min(READ_BUFFER_SIZE, Len(avail))),
                     overflow_checks),
              LAMBDA r :
                 IF r.ctl # "Ok"
                 THEN [ parser |-> r.p,
                        ret |-> IF r.ctl = "panic" THEN "panic" ELSE "none",
                        avail |-> Drop(avail, Min(READ_BUFFER_SIZE, Len(avail))) ]
                 ELSE IF done(r.p)
                 THEN [ parser |-> r.p, ret |-> "true",
                        avail |-> Drop(avail, Min(READ_BUFFER_SIZE, Len(avail))) ]
                 ELSE read_request(r.p,
                          Drop(avail, Min(READ_BUFFER_SIZE, Len(avail))), eof,
                          overflow_checks))

\* A ReadDone that installs the producer and leaves the phase at Read.
ReadDone_unphased(conn, parser, avail, d) ==
    Handled([conn EXCEPT !.request = parser, !.response = Some(d.response)],
            avail, d.fs, d.sessions, IF d.ret THEN "true" ELSE "none", "")

\* handle_read_state once read_request returned Some(true).
ReadDone(conn, parser, avail, d) ==
    Handled([conn EXCEPT !.request = parser, !.response = Some(d.response),
                         !.status = "Write"],
            avail, d.fs, d.sessions, IF d.ret THEN "true" ELSE "none", "")

\* An AfterRead that keeps the connection, waiting for more, when read_request
\* returned None.
AfterRead_lenient(conn, fs, sessions, listener_info, rr, env) ==
    IF rr.ret # "true"
    THEN Handled([conn EXCEPT !.request = rr.parser], rr.avail, fs, sessions,
                 IF rr.ret = "none" THEN "false" ELSE rr.ret, "")
    ELSE ReadDone(conn, rr.parser, rr.avail,
                  dispatch(fs, sessions, listener_info, get(rr.parser).v, env))

\* handle_read_state on what read_request returned.
AfterRead(conn, fs, sessions, listener_info, rr, env) ==
    IF rr.ret # "true"
    THEN Handled([conn EXCEPT !.request = rr.parser], rr.avail, fs, sessions,
                 rr.ret, "")
    ELSE ReadDone(conn, rr.parser, rr.avail,
                  dispatch(fs, sessions, listener_info, get(rr.parser).v, env))

\* handle_read_state. env.sock_err: the first stream.read fails.
handle_read_state(conn, avail, eof, fs, sessions, listener_info, env) ==
    IF env.sock_err THEN Handled(conn, avail, fs, sessions, "none", "")
    ELSE AfterRead(conn, fs, sessions, listener_info,
                   read_request(conn.request, avail, eof, env.overflow_checks),
                   env)

\* A reset that goes back to Read with the parser and the producer left in
\* place.
KeepAliveReset_stale(conn) == [conn EXCEPT !.status = "Read"]

\* The connection reset for the next request of a keep-alive connection.
KeepAliveReset(conn) ==
    [conn EXCEPT !.status = "Read", !.request = HttpRequestBuilder_new,
                 !.response = None]

\* handle_write_state once write_response returned: w is its result.
AfterWrite(conn, avail, fs, sessions, w) ==
    IF ~w.ret.some
    THEN Handled([conn EXCEPT !.response = Some(w.resp)], avail, fs, sessions,
                 "none", w.sent)
    ELSE IF ~w.ret.v
    THEN Handled([conn EXCEPT !.response = Some(w.resp)], avail, fs, sessions,
                 "false", w.sent)
    ELSE IF ~is_finished(w.resp)
    THEN Handled([conn EXCEPT !.response = Some(w.resp)], avail, fs, sessions,
                 "true", w.sent)
    ELSE IF ~get(conn.request).some
    THEN Handled([conn EXCEPT !.response = Some(w.resp)], avail, fs, sessions,
                 "none", w.sent)
    ELSE IF should_keep_alive(get(conn.request).v)
    THEN Handled(KeepAliveReset(conn), avail, fs, sessions,
                 "true", w.sent)
    ELSE Handled([conn EXCEPT !.response = Some(w.resp)], avail, fs, sessions,
                 "none", w.sent)

handle_write_state(conn, avail, fs, sessions, env) ==
    IF ~conn.response.some THEN Handled(conn, avail, fs, sessions, "none", "")
    ELSE AfterWrite(conn, avail, fs, sessions,
                    write_response(conn.response.v, env.rd, env.wr))

\* A Server::handle that reads in every phase.
HandlerFor_read(status) == "read"

\* The handler Server::handle picks for a phase.
HandlerFor(status) ==
    CASE status = "Read" -> "read" [] status = "Write" -> "write" [] OTHER -> "drop"

\* Server::handle
Server_handle(conn, avail, eof, fs, sessions, listener_info, env) ==
    CASE HandlerFor(conn.status) = "read" ->
            handle_read_state(conn, avail, eof, fs, sessions, listener_info, env)
      [] HandlerFor(conn.status) = "write" ->
            handle_write_state(conn, avail, fs, sessions, env)
      [] OTHER -> Handled(conn, avail, fs, sessions, "none", "")

(***************************************************************************)
(* A configuration and a filesystem: one listener fronting two virtual      *)
(* hosts.                                                                  *)
(***************************************************************************)
Route(path, methods, root) ==
    [ path |-> path, methods |-> methods, root |-> root,
      default_file |-> None, redirect |-> None, cgi |-> None,
      list_directory |-> None ]

MainServer ==
    [ server_name |-> "a.test", root |-> "/srv",
      error_pages |-> <<[code |-> "404", path |-> "/srv/error_pages/404.html"]>>,
      client_max_body_size |-> 8,
      routes |-> <<
          [Route("/", <<"GET">>, "www") EXCEPT !.default_file = Some("index.html")],
          Route("/files", <<"GET", "POST", "DELETE">>, "files"),
          [Route("/cgi-bin", <<"GET", "POST">>, "cgi") EXCEPT !.cgi = Some(".py")],
          [Route("/old", <<"GET">>, "www") EXCEPT !.redirect = Some("/")],
          [Route("/pub", <<"GET">>, "files") EXCEPT !.list_directory = Some(TRUE)],
          Route("/dav", <<"GET", "PUT">>, "files"),
          [Route("/rb", <<"GET">>, "cgi") EXCEPT !.cgi = Some(".rb")],
          [Route("/run", <<"GET", "DELETE">>, "cgi") EXCEPT !.cgi = Some(".py")] >> ]

AltServer ==
    [ server_name |-> "b.test", root |-> "/srv",
      error_pages |-> <<>>,
      client_max_body_size |-> 8,
      routes |-> << Route("/files", <<"GET">>, "alt") >> ]

Listener == [servers |-> <<MainServer, AltServer>>, default_server_index |-> 0]

FsStart ==
    [q \in {"/", "/srv", "/srv/www", "/srv/files", "/srv/cgi", "/srv/alt",
            "/srv/error_pages"} |-> Dir]
    @@ ( "/srv/www/index.html" :> File("home")
      @@ "/srv/files/a.txt" :> File("abc")
      @@ "/srv/secret.txt" :> File("key")
      @@ "/srv/cgi/hello.py" :> File("print")
      @@ "/srv/alt/a.txt" :> File("alt")
      @@ "/srv/error_pages/404.html" :> File("gone") )

(***************************************************************************)
(* Complete requests, each parsed from one read and dispatched.            *)
(***************************************************************************)
VARIABLES
    d_stage,    \* "idle", or "parsed" when a request awaits its dispatch
    d_parser,   \* the HttpRequestBuilder the request was fed to
    d_raw,      \* the bytes of the request it was fed
    d_fs,       \* the filesystem
    d_sessions, \* the session store
    d_out,      \* the last dispatch: None, or Some of its result and the
                \* filesystem it started from
    d_count     \* the requests dispatched so far

dvars == <<d_stage, d_parser, d_raw, d_fs, d_sessions, d_out, d_count>>

\* The number of requests dispatched in a row.
MaxDispatches == 2

RequestBytes(method, path, headers, body) ==
    method \o " " \o path \o " HTTP/1.1\r\n" \o headers
        \o (IF body = "" THEN ""
            ELSE "Content-Length: " \o ToDec(Len(body)) \o "\r\n")
        \o "\r\n" \o body

MultipartBody(filename, data) ==
    "--B\r\nContent-Disposition: form-data; name=\"f\"; filename=\"" \o filename
        \o "\"\r\n\r\n" \o data \o "\r\n--B--\r\n"

MultipartType == "Content-Type: multipart/form-data; boundary=B\r\n"

TextType == "Content-Type: text/plain\r\n"

\* Paths below the /files route that stay in its directory, and paths that
\* leave it.
InsidePaths == {"/files/a.txt", "/files/new.txt", "/files"}

EscapingPaths == {"/files/../secret.txt", "/files/.."}

\* Host header values: the second server named in other letter cases, with
\* and without a port, the first server, and a name no server has.
HostValues == {"B.TEST:8080", "B.Test", "b.test", "a.test:80", "unknown"}

DispatchInputs ==
    {RequestBytes("GET", path, "", "") :
        path \in InsidePaths \cup EscapingPaths
                    \cup {"/", "/old", "/pub", "/cgi-bin/hello.py",
                          "/cgi-bin/../secret.py"}}
      \cup {RequestBytes("GET", "/files/a.txt", "Host: " \o host \o "\r\n", "") :
               host \in HostValues}
      \cup {RequestBytes("GET", "/files/a.txt", "Host: b.test:8080\r\n", ""),
            RequestBytes("PUT", "/files/a.txt", "", ""),
            RequestBytes("PUT", "/dav/a.txt", "", ""),
            RequestBytes("get", "/dav/a.txt", "", ""),
            RequestBytes("DELETE", "/cgi-bin/hello.py", "", ""),
            RequestBytes("POST", "/old", TextType, "hey"),
            RequestBytes("DELETE", "/old/../secret.txt", "", ""),
            RequestBytes("PUT", "/old/a.py", "", ""),
            RequestBytes("GET", "/rb/hello.rb", "", ""),
            RequestBytes("POST", "/cgi-bin/hello.py", TextType, "hey"),
            RequestBytes("GET", "/cgi-bin/hello.py?x=1", "Accept-Language: en\r\n", ""),
            RequestBytes("GET", "/cgi-bin/hello.py?x=1&y=a?b", "", ""),
            RequestBytes("GET", "/files/a.txt", "Cookie: session_id=s1\r\n", ""),
            RequestBytes("POST", "/old", "Cookie: theme=dark; session_id=s1\r\n", ""),
            RequestBytes("GET", "/nowhere", "Cookie: session_id=gone\r\n", ""),
            RequestBytes("DELETE", "/run/hello.py", "", ""),
            RequestBytes("DELETE", "/run/hello.txt", "", "")}
      \cup {RequestBytes("DELETE", path, "", "") :
               path \in InsidePaths \cup EscapingPaths}
      \cup {RequestBytes("POST", path, TextType, "hey") :
               path \in InsidePaths \cup EscapingPaths}
      \cup {RequestBytes("POST", path, MultipartType, MultipartBody("up.txt", "hey")) :
               path \in InsidePaths \cup EscapingPaths}
      \cup {RequestBytes("POST", "/files/big.txt", TextType, "0123456789"),
            "POST /files/big.txt HTTP/1.1\r\n" \o TextType
                \o "Transfer-Encoding: chunked\r\n\r\n"
                \o "a\r\n0123456789\r\n0\r\n\r\n"}

\* What the environment decides during one dispatch.
DispatchEnvs ==
    [ child : [ spawn : BOOLEAN, stdin : BOOLEAN, wait : BOOLEAN,
                success : BOOLEAN, stdout : {"<p>hi</p>"} ],
      uuid  : {"1b4e28ba"},
      now   : {0} ]

\* A child process that runs to a successful end.
CalmChild ==
    [spawn |-> TRUE, stdin |-> TRUE, wait |-> TRUE, success |-> TRUE,
     stdout |-> "<p>hi</p>"]

\* The choices that matter for the request a parser holds: those about a
\* child process only when the path names a script.
EnvsFor(p) ==
    IF ~done(p) THEN {}
    ELSE {env \in DispatchEnvs :
             \/ env.child = CalmChild
             \/ \E ext \in CgiInterpreters : EndsWith(p.request.path, ext)}

DispatchStart ==
    /\ d_stage = "idle"
    /\ d_parser = HttpRequestBuilder_new
    /\ d_raw = ""
    /\ d_fs = FsStart
    /\ d_sessions = SessionStore_new
    /\ d_out = None
    /\ d_count = 0

DispatchIdle ==
    /\ d_stage = "idle"
    /\ d_parser = HttpRequestBuilder_new
    /\ d_raw = ""
    /\ d_fs = [q \in {"/"} |-> Dir]
    /\ d_sessions = SessionStore_new
    /\ d_out = None
    /\ d_count = 0

\* What append makes of each request on a fresh parser, in either build.
AppendedWhole ==
    [raw \in DispatchInputs, c \in BOOLEAN |-> append(HttpRequestBuilder_new, raw, c)]

\* read_request on a fresh parser, one read bringing the whole request.
Receive(raw) ==
    /\ d_stage = "idle"
    /\ d_count < MaxDispatches
    /\ \E c \in BOOLEAN :
         LET r == AppendedWhole[raw, c] IN
         /\ r.ctl = "Ok" /\ done(r.p)
         /\ d_parser' = r.p
    /\ d_raw' = raw
    /\ d_stage' = "parsed"
    /\ UNCHANGED <<d_fs, d_sessions, d_out, d_count>>

\* The rest of handle_read_state on the request parsed.
Dispatch(env) ==
    /\ d_stage = "parsed"
    /\ LET r == dispatch(d_fs, d_sessions, Listener, get(d_parser).v, env) IN
         /\ d_fs' = r.fs
         /\ d_sessions' = r.sessions
         /\ d_out' = Some([ response |-> r.response, ops |-> r.ops,
                            ret |-> r.ret, before |-> d_fs,
                            sessions |-> d_sessions ])
    /\ d_stage' = "idle"
    /\ d_count' = d_count + 1
    /\ UNCHANGED <<d_parser, d_raw>>

(***************************************************************************)
(* The event loop: connections accepted on the listener, clients sending   *)
(* their requests in segments, one call of Server::handle per step.        *)
(***************************************************************************)
VARIABLES
    h_conns,       \* token -> SocketStatus of the connections in the table
    h_next_token,  \* Server.next_token
    h_turn,        \* the token whose handle loop goes on (Some(true)), else 0
    h_in,          \* token -> the bytes that arrived and were not read yet
    h_eof,         \* token -> the client closed its side
    h_script,      \* token -> the segments the client still has to send
    h_fs,          \* the filesystem
    h_sessions,    \* the session store
    h_log          \* token -> what happened on the connection so far:
                   \*   consumed  bytes read from the socket
                   \*   fed       bytes appended to the parser now in place
                   \*   served    responses drained and followed by a reset
                   \*   owed      the bytes of all responses produced
                   \*   sent      the bytes written to the socket
                   \*   how       "open", or why handle returned None

hvars ==
    <<h_conns, h_next_token, h_turn, h_in, h_eof, h_script, h_fs, h_sessions, h_log>>

\* The connections accepted in a run.
MaxConns == 1

GetRequest(path, connection) ==
    RequestBytes("GET", path,
                 IF connection = "" THEN ""
                 ELSE "Connection: " \o connection \o "\r\n", "")

\* Where the request sent in two segments is cut.
SplitAt == 10

\* What a client sends, segment by segment: a keep-alive request, a
\* Keep-Alive request and a close request; a keep-alive request cut in two; an
\* upload and a request without the header pipelined behind it in one
\* segment; a chunked upload with a negative chunk size; a request with a
\* header line that has no colon.
Scripts ==
    { << GetRequest("/files/a.txt", "keep-alive"), GetRequest("/old", "Keep-Alive"),
         GetRequest("/old", "close") >>,
      << Take(GetRequest("/", "keep-alive"), SplitAt),
         Drop(GetRequest("/", "keep-alive"), SplitAt) >>,
      << RequestBytes("POST", "/files/new.txt",
                      "Connection: keep-alive\r\n" \o TextType, "hey")
           \o GetRequest("/files/new.txt", "") >>,
      << NegativeChunkRequest >>,
      << ReqBadHeader >> }

\* A socket write takes everything offered or this many bytes of it.
WritePiece == 80

\* An addition of append overflows only for a chunk-size line that begins with
\* a minus sign, after 0x or not; on bytes without such a line the builds with
\* and without overflow checks do the same.
MayOverflow(bytes) ==
    \E sign \in {"-", "0x-"} : StartsWith(bytes, sign) \/ Contains(bytes, "\n" \o sign)

\* What the environment decides during one call of Server::handle on a
\* connection with the bytes avail to read: in phase Read whether the socket
\* read fails and, where it matters, whether the build checks for overflow; in
\* phase Write how the file read and the socket write of write_response end (a
\* file read returns all that is left, a socket write takes all or WritePiece
\* bytes).
HandleEnvs(conn, avail) ==
    LET base == [ sock_err |-> FALSE, rd |-> IoOk(0), wr |-> WouldBlock,
                  child |-> CalmChild, uuid |-> "1b4e28ba", now |-> 0,
                  overflow_checks |-> FALSE ]
    IN  IF conn.status = "Read" \/ ~conn.response.some
        THEN {[base EXCEPT !.sock_err = e] : e \in BOOLEAN}
                \cup {[base EXCEPT !.overflow_checks = TRUE] : c \in
                         IF MayOverflow(conn.request.buffer \o avail)
                         THEN {TRUE} ELSE {}}
        ELSE {[base EXCEPT !.rd = x.rd, !.wr = x.wr] :
                 x \in {x \in WriteEnv(conn.response.v) :
                          /\ x.rd.kind = "Ok" =>
                               \/ x.rd.n = 0
                               \/ x.rd.n = Len(conn.response.v.file)
                                               - conn.response.v.pos
                          /\ x.wr.kind = "Ok" =>
                               \/ x.wr.n = WritePiece
                               \/ With(fill_if_needed(conn.response.v, x.rd),
                                       LAMBDA f : f.some /\ x.wr.n = Len(peek(f.v)))}}

LogStart ==
    [consumed |-> 0, fed |-> 0, served |-> 0, owed |-> "", sent |-> "",
     how |-> "open"]

\* All the bytes a producer sends from its creation to its end.
ResponseBytes(r) == IF r.kind = "simple" THEN r.data ELSE r.headers \o r.file

ServerStart ==
    /\ h_conns = [t \in {} |-> SocketStatus_new]
    /\ h_next_token = CONNECTION_TOKEN_START
    /\ h_turn = 0
    /\ h_in = [t \in {} |-> ""]
    /\ h_eof = [t \in {} |-> FALSE]
    /\ h_script = [t \in {} |-> <<>>]
    /\ h_fs = FsStart
    /\ h_sessions = SessionStore_new
    /\ h_log = [t \in {} |-> LogStart]

ServerIdle ==
    /\ h_conns = [t \in {} |-> SocketStatus_new]
    /\ h_next_token = CONNECTION_TOKEN_START
    /\ h_turn = 0
    /\ h_in = [t \in {} |-> ""]
    /\ h_eof = [t \in {} |-> FALSE]
    /\ h_script = [t \in {} |-> <<>>]
    /\ h_fs = [q \in {"/"} |-> Dir]
    /\ h_sessions = SessionStore_new
    /\ h_log = [t \in {} |-> LogStart]

\* The map m with the entry k -> v added.
Put(m, k, v) == [x \in DOMAIN m \cup {k} |-> IF x = k THEN v ELSE m[x]]

\* A call of Server::handle panicked: the process, which has no other thread
\* and catches no unwinding, is gone, and nothing is done on its connections
\* any more.
Aborted == \E t \in DOMAIN h_log : h_log[t].how = "panic"

\* The accept branch of Server::run, for a client that will send script.
Accept(script) ==
    /\ h_turn = 0
    /\ ~Aborted
    /\ h_next_token < CONNECTION_TOKEN_START + MaxConns
    /\ h_conns' = Put(h_conns, h_next_token, SocketStatus_new)
    /\ h_next_token' = h_next_token + 1
    /\ h_in' = Put(h_in, h_next_token, "")
    /\ h_eof' = Put(h_eof, h_next_token, FALSE)
    /\ h_script' = Put(h_script, h_next_token, script)
    /\ h_log' = Put(h_log, h_next_token, LogStart)
    /\ UNCHANGED <<h_turn, h_fs, h_sessions>>

\* The client of connection t sends its next segment.
ClientSend(t) ==
    /\ ~Aborted
    /\ ~h_eof[t]
    /\ h_script[t] # <<>>
    /\ h_in' = [h_in EXCEPT ![t] = @ \o Head(h_script[t])]
    /\ h_script' = [h_script EXCEPT ![t] = Tail(@)]
    /\ UNCHANGED <<h_conns, h_next_token, h_turn, h_eof, h_fs, h_sessions, h_log>>

\* The client of connection t, having sent everything, closes its side.
ClientClose(t) ==
    /\ ~Aborted
    /\ ~h_eof[t]
    /\ h_script[t] = <<>>
    /\ h_eof' = [h_eof EXCEPT ![t] = TRUE]
    /\ UNCHANGED <<h_conns, h_next_token, h_turn, h_in, h_script, h_fs,
                   h_sessions, h_log>>

\* The log of a connection after a call of Server::handle that turned the
\* connection before into the result r.
Logged(log, before, avail, r) ==
    [ consumed |-> log.consumed + (Len(avail) - Len(r.avail)),
      fed      |-> IF before.status = "Write" /\ r.ret # "none"
                      /\ r.conn.status = "Read"
                   THEN 0
                   ELSE log.fed + (Len(avail) - Len(r.avail)),
      served   |-> IF before.status = "Write" /\ r.ret # "none"
                      /\ r.conn.status = "Read"
                   THEN log.served + 1 ELSE log.served,
      owed     |-> IF before.status = "Read" /\ r.conn.response.some
                   THEN log.owed \o ResponseBytes(r.conn.response.v)
                   ELSE log.owed,
      sent     |-> log.sent \o r.sent,
      how      |-> IF r.ret = "panic" THEN "panic"
                   ELSE IF r.ret # "none" THEN "open"
                   ELSE IF before.status = "Read" THEN "read"
                   ELSE IF is_finished(r.conn.response.v) THEN "end" ELSE "write" ]

\* One pass of the loop of Server::run on the connection t: a call of
\* Server::handle; None removes the connection, Some(true) calls again.
Handle(t, env) ==
    /\ t \in DOMAIN h_conns
    /\ h_turn \in {0, t}
    /\ ~Aborted
    /\ LET r == Server_handle(h_conns[t], h_in[t], h_eof[t], h_fs, h_sessions,
                              Listener, env) IN
         /\ h_conns' = IF r.ret = "panic" THEN h_conns
                       ELSE IF r.ret = "none"
                       THEN [x \in DOMAIN h_conns \ {t} |-> h_conns[x]]
                       ELSE [h_conns EXCEPT ![t] = r.conn]
         /\ h_in' = [h_in EXCEPT ![t] = r.avail]
         /\ h_fs' = r.fs
         /\ h_sessions' = r.sessions
         /\ h_turn' = IF r.ret = "true" THEN t ELSE 0
         /\ h_log' = [h_log EXCEPT ![t] = Logged(@, h_conns[t], h_in[t], r)]
    /\ UNCHANGED <<h_next_token, h_eof, h_script>>

(***************************************************************************)
(* Route selection on its own: a route table, a request path, and the      *)
(* route find_matching_route returns for them.                             *)
(***************************************************************************)
VARIABLES
    r_routes,   \* the routes of the server, in configuration order
    r_path,     \* the request path
    r_out       \* None, or Some of what find_matching_route returned

rvars == <<r_routes, r_path, r_out>>

\* The longest route table tried.
MaxRoutes == 3

RoutePaths == {"/", "/api", "/api/v1", "/apiv2"}

RequestPaths == {"/", "/api", "/api/v1", "/api/v1/x", "/apiv2", "/ap", "/x"}

\* The route tables: every sequence of up to MaxRoutes route paths, the i-th
\* route serving from the directory ri.
RouteTables ==
    UNION {[1..n -> RoutePaths] : n \in 0..MaxRoutes}

TableOf(paths) ==
    [i \in 1..Len(paths) |-> Route(paths[i], <<"GET">>, "r" \o ToDec(i))]

RoutingStart ==
    /\ \E paths \in RouteTables : r_routes = TableOf(paths)
    /\ r_path \in RequestPaths
    /\ r_out = None

RoutingIdle ==
    /\ r_routes = <<>>
    /\ r_path = ""
    /\ r_out = None

\* handle_read_state looks the route up for the request path.
MatchRoute ==
    /\ ~r_out.some
    /\ r_out' = Some(find_matching_route([routes |-> r_routes], r_path))
    /\ UNCHANGED <<r_routes, r_path>>

(***************************************************************************)
(* The session store in use: the event loop creates, reads, renews,        *)
(* writes back and destroys sessions, the sweep thread calls cleanup, and   *)
(* time passes.  Every store operation runs under the store's lock, so it  *)
(* is one step.                                                            *)
(***************************************************************************)
VARIABLES
    s_now,       \* the clock
    s_ticks,     \* how many times the clock has moved
    s_sessions,  \* the store's map
    s_made,      \* id -> the operation that made the session (history)
    s_renewed,   \* the ids of the sessions renew was called on (history)
    s_held,      \* None, or Some of the Session value a caller holds
    s_ret        \* what the last store operation returned

svars == <<s_now, s_ticks, s_sessions, s_made, s_renewed, s_held, s_ret>>

\* How many sessions are ever made.
MaxSessions == 2

\* How many times the clock moves.
MaxTicks == 2

\* The amounts of time that pass in one step of the clock.
TickSteps == {NEW_EXPIRY_SECS \div 2}

\* Uuid::new_v4(): an id no session had before.
FreshId == "s" \o ToDec(Cardinality(DOMAIN s_made) + 1)

Users == {"ann"}

SessionStart ==
    /\ s_now = 0
    /\ s_ticks = 0
    /\ s_sessions = SessionStore_new
    /\ s_made = SessionStore_new
    /\ s_renewed = {}
    /\ s_held = None
    /\ s_ret = [op |-> "new"]

SessionIdle ==
    /\ s_now = 0
    /\ s_ticks = 0
    /\ s_sessions = SessionStore_new
    /\ s_made = SessionStore_new
    /\ s_renewed = {}
    /\ s_held = None
    /\ s_ret = [op |-> "idle"]

Made(session, by) ==
    /\ s_sessions' = insert(s_sessions, session)
    /\ s_made' = (session.id :> by) @@ s_made
    /\ s_held' = Some(session)
    /\ s_ret' = [op |-> by, session |-> session]
    /\ UNCHANGED <<s_now, s_ticks, s_renewed>>

Create ==
    /\ Cardinality(DOMAIN s_made) < MaxSessions
    /\ Made(Session_new(FreshId, s_now), "create")

CreateWithUser(user) ==
    /\ Cardinality(DOMAIN s_made) < MaxSessions
    /\ Made(with_user(Session_new(FreshId, s_now), user, user), "create_with_user")

Get(id) ==
    /\ s_held' = SessionStore_get(s_sessions, id)
    /\ s_ret' = [op |-> "get", session |-> s_held']
    /\ UNCHANGED <<s_now, s_ticks, s_sessions, s_made, s_renewed>>

Renew ==
    /\ s_held.some
    /\ s_held' = Some(renew(s_held.v, s_now))
    /\ s_renewed' = s_renewed \cup {s_held.v.id}
    /\ UNCHANGED <<s_now, s_ticks, s_sessions, s_made, s_ret>>

Update ==
    /\ s_held.some
    /\ s_sessions' = update(s_sessions, s_held.v)[1]
    /\ s_ret' = [op |-> "update", ok |-> update(s_sessions, s_held.v)[2]]
    /\ UNCHANGED <<s_now, s_ticks, s_made, s_renewed, s_held>>

Destroy(id) ==
    /\ s_sessions' = destroy(s_sessions, id)[1]
    /\ s_ret' = [op |-> "destroy", ok |-> destroy(s_sessions, id)[2]]
    /\ UNCHANGED <<s_now, s_ticks, s_made, s_renewed, s_held>>

\* One sweep: it starts at s_now and returns d seconds later.
Cleanup(d, at) ==
    /\ d > 0 => s_ticks < MaxTicks
    /\ s_now' = s_now + d
    /\ s_ticks' = IF d > 0 THEN s_ticks + 1 ELSE s_ticks
    /\ s_sessions' = cleanup(s_sessions, at)[1]
    /\ s_ret' = [op |-> "cleanup", removed |-> cleanup(s_sessions, at)[2]]
    /\ UNCHANGED <<s_made, s_renewed, s_held>>

Tick(d) ==
    /\ s_ticks < MaxTicks
    /\ s_now' = s_now + d
    /\ s_ticks' = s_ticks + 1
    /\ UNCHANGED <<s_sessions, s_made, s_renewed, s_held, s_ret>>

\* The ids asked for: those of the sessions made, and one never made.
SessionIds == {"s" \o ToDec(i) : i \in 1..(MaxSessions + 1)}

\* How long a sweep takes.
SweepDelays == {0} \cup TickSteps

\* The instants at which a sweep taking d looks at a session: as it starts or
\* as it ends.
SweepInstants(d) == {s_now, s_now + d}


(***************************************************************************)
(* A cookie rendered for a Set-Cookie header and read back.                *)
(***************************************************************************)
VARIABLES
    c_cookie,   \* the cookie built
    c_header,   \* None, or Some of what to_header_value rendered for it
    c_parsed    \* None, or Some of what Cookie::parse read from c_header

cvars == <<c_cookie, c_header, c_parsed>>

CookieNames == {"sid", "k"}

\* Values of unreserved characters only, the empty value, and values with
\* characters that urlencoding::encode escapes.
CookieValues == {"abc", "A-z_0.9~", "", "a b", "a=b", "a;b", "x%y", "a/b"}

\* Cookie::new(name, value) with the setters path, max_age and http_only
\* applied or not.
CookieInputs ==
    { [Cookie_new(name, value) EXCEPT !.path = path, !.max_age = max_age,
                                      !.http_only = http_only] :
        name \in CookieNames, value \in CookieValues,
        path \in {None, Some("/")}, max_age \in {None, Some(RENEW_SECS)},
        http_only \in BOOLEAN }

CookieStart ==
    /\ c_cookie \in CookieInputs
    /\ c_header = None
    /\ c_parsed = None

CookieIdle ==
    /\ c_cookie = Cookie_new("", "")
    /\ c_header = None
    /\ c_parsed = None

\* cookie.to_header_value()
Render ==
    /\ ~c_header.some
    /\ c_header' = Some(to_header_value(c_cookie))
    /\ UNCHANGED <<c_cookie, c_parsed>>

\* Cookie::parse on the rendered value.
ParseBack ==
    /\ c_header.some
    /\ ~c_parsed.some
    /\ c_parsed' = Some(Cookie_parse(c_header.v))
    /\ UNCHANGED <<c_cookie, c_header>>

(***************************************************************************)
(* A multipart/form-data body built from files and taken apart again.      *)
(***************************************************************************)
VARIABLES
    m_files,     \* the (filename, bytes) pairs, in the order of their parts
    m_boundary,  \* the boundary
    m_body,      \* None, or Some of the body built from them
    m_out        \* None, or Some of what extract_multipart_files returned

mvars == <<m_files, m_boundary, m_body, m_out>>

\* The most parts in a body.
MaxParts == 2

PartNames == {"a.txt", "b.bin"}

\* Contents: text, nothing, text ending in CRLF or in "--", text with a CRLF
\* inside, and bytes that are not UTF-8.
PartContents == {"abc", "", "ab\r\n", "ab--", "x\r\ny", "a" \o BadByte}

Boundaries == {"B", "xyz"}

\* Up to MaxParts files of different names.
FileLists ==
    UNION { {fs \in [1..n -> PartNames \X PartContents] :
                \A i, j \in 1..n : i # j => fs[i][1] # fs[j][1]} :
            n \in 0..MaxParts }

\* One part of a multipart/form-data body (RFC 7578): the delimiter line, the
\* Content-Disposition header, a blank line, the content and a CRLF.
PartBytes(file, boundary) ==
    "--" \o boundary \o "\r\n"
        \o "Content-Disposition: form-data; name=\"file\"; filename=\""
        \o file[1] \o "\"\r\n\r\n" \o file[2] \o "\r\n"

RECURSIVE PartsBytes(_, _)
PartsBytes(files, boundary) ==
    IF files = <<>> THEN ""
    ELSE PartBytes(Head(files), boundary) \o PartsBytes(Tail(files), boundary)

\* The body a client builds from the files: the parts and the close delimiter.
MultipartOf(files, boundary) ==
    PartsBytes(files, boundary) \o "--" \o boundary \o "--\r\n"

MultipartStart ==
    /\ m_files \in FileLists
    /\ m_boundary \in Boundaries
    /\ m_body = None
    /\ m_out = None

MultipartIdle ==
    /\ m_files = <<>>
    /\ m_boundary = ""
    /\ m_body = None
    /\ m_out = None

\* The client builds the body.
Build ==
    /\ ~m_body.some
    /\ m_body' = Some(MultipartOf(m_files, m_boundary))
    /\ UNCHANGED <<m_files, m_boundary, m_out>>

\* extract_multipart_files on the body and the boundary.
Extract ==
    /\ m_body.some
    /\ ~m_out.some
    /\ m_out' = Some(extract_multipart_files(m_body.v, m_boundary))
    /\ UNCHANGED <<m_files, m_boundary, m_body>>

(***************************************************************************)
(* One SimpleResponse drained to a socket by repeated write_response calls. *)
(***************************************************************************)
VARIABLES
    b_resp,     \* the SimpleResponse
    b_out,      \* the bytes the client has received
    b_ret       \* what the last write_response returned

bvars == <<b_resp, b_out, b_ret>>

\* Responses of up to this many bytes are buffered.
MaxBufLen == 8

BufferedData == {Take("HTTP/1.1 204 No Content", n) : n \in 0..MaxBufLen}

BufferedStart ==
    /\ \E data \in BufferedData : b_resp = SimpleResponse_new(data)
    /\ b_out = ""
    /\ b_ret = Some(TRUE)

BufferedIdle ==
    /\ b_resp = SimpleResponse_new("")
    /\ b_out = ""
    /\ b_ret = Some(TRUE)

\* One call of write_response on the producer, the socket write ending as wr;
\* after None the connection is dropped and no call follows.
BufferedWrite(wr) ==
    /\ b_ret.some
    /\ LET w == write_response(b_resp, IoOk(0), wr) IN
         /\ b_resp' = w.resp
         /\ b_out' = b_out \o w.sent
         /\ b_ret' = w.ret

(***************************************************************************)
(* Server::run: the listeners it sets up, the tokens it hands to the       *)
(* sockets it accepts, and the turns of several connections side by side.  *)
(***************************************************************************)
VARIABLES
    l_running,        \* run has set up its listeners and loops on the poll
    l_token_counter,  \* the token the next listener would get
    l_connections,    \* the connection table: token -> SocketData
    l_next_token,     \* the token of the next accepted socket
    l_now,            \* the clock
    l_in,             \* token -> bytes arrived and not yet read
    l_eof,            \* token -> the client closed its side
    l_script,         \* token -> the segments the client still sends
    l_fs,             \* the filesystem
    l_sessions,       \* the session store
    l_turn,           \* the connection whose turn goes on, or 0
    l_io,             \* token -> when bytes were last read or written
    l_removed         \* the tokens of the connections removed

lvars ==
    <<l_running, l_token_counter, l_connections, l_next_token, l_now, l_in,
      l_eof, l_script, l_fs, l_sessions, l_turn, l_io, l_removed>>

LISTENER_TOKEN_START == 0

\* The numbers of listening addresses of the configurations tried:
\* MaxListeners, and one more than CONNECTION_TOKEN_START.
MaxListeners == 2

ListenerCounts == {MaxListeners, CONNECTION_TOKEN_START + 1}

\* The sockets accepted in a run.
MaxAccepts == 2

\* How far the clock runs.
MaxClock == 1

\* The tokens of the listeners run has registered.
ListenerTokens == LISTENER_TOKEN_START..(l_token_counter - 1)

\* The listener whose events are tried: the one registered last.
EventTokens == {l_token_counter - 1}

\* The request a client sends behind another one.
FollowingRequest == GetRequest("/files/a.txt", "")

\* A keep-alive chunked upload of the chunks "ab" and "ff" in two segments,
\* the second of which also holds the request that follows.
PipelinedUpload ==
    << "POST /files/c.txt HTTP/1.1\r\nConnection: keep-alive\r\n"
          \o "Transfer-Encoding: chunked\r\n\r\n2\r\nab\r\n",
       "2\r\nff\r\n0\r\n\r\n" \o FollowingRequest >>

\* What the clients send: a keep-alive request, a chunked upload with a
\* negative chunk size, and a chunked upload with a request behind it.
LoopScripts ==
    { << GetRequest("/files/a.txt", "keep-alive") >>, << NegativeChunkRequest >>,
      PipelinedUpload }

\* The bodies of the requests of LoopScripts.
SentBodies == {"", "abc", "abff"}

\* The SocketData accept inserts for a socket of the listener token at the
\* time now.
SocketData_new(token, now) ==
    [status |-> SocketStatus_new, ttl |-> now, listener_token |-> token]

LoopStart ==
    /\ l_running = FALSE
    /\ l_token_counter = LISTENER_TOKEN_START
    /\ l_connections = [t \in {} |-> SocketData_new(0, 0)]
    /\ l_next_token = CONNECTION_TOKEN_START
    /\ l_now = 0
    /\ l_in = [t \in {} |-> ""]
    /\ l_eof = [t \in {} |-> FALSE]
    /\ l_script = [t \in {} |-> <<>>]
    /\ l_fs = FsStart
    /\ l_sessions = SessionStore_new
    /\ l_turn = 0
    /\ l_io = [t \in {} |-> 0]
    /\ l_removed = {}

\* The loop variables in the specifications that do not use them.
LoopIdle ==
    /\ l_running = FALSE
    /\ l_token_counter = LISTENER_TOKEN_START
    /\ l_connections = [t \in {} |-> SocketData_new(0, 0)]
    /\ l_next_token = CONNECTION_TOKEN_START
    /\ l_now = 0
    /\ l_in = [t \in {} |-> ""]
    /\ l_eof = [t \in {} |-> FALSE]
    /\ l_script = [t \in {} |-> <<>>]
    /\ l_fs = [q \in {"/"} |-> Dir]
    /\ l_sessions = SessionStore_new
    /\ l_turn = 0
    /\ l_io = [t \in {} |-> 0]
    /\ l_removed = {}

\* The setup of Server::run for a configuration with n listening addresses:
\* each gets the next token of a counter that starts at LISTENER_TOKEN_START.
Run(n) ==
    /\ ~l_running
    /\ l_token_counter = LISTENER_TOKEN_START
    /\ l_next_token = CONNECTION_TOKEN_START
    /\ l_running' = TRUE
    /\ l_token_counter' = l_token_counter + n
    /\ UNCHANGED <<l_connections, l_next_token, l_now, l_in, l_eof, l_script,
                   l_fs, l_sessions, l_turn, l_io, l_removed>>

\* The clock advances.
ClockTick ==
    /\ l_running
    /\ l_now < MaxClock
    /\ l_now' = l_now + 1
    /\ UNCHANGED <<l_running, l_token_counter, l_connections, l_next_token, l_in,
                   l_eof, l_script, l_fs, l_sessions, l_turn, l_io, l_removed>>

\* An event with the token of a listener: the accept branch of Server::run
\* takes a socket whose client will send script.
AcceptOn(token, script) ==
    /\ l_running
    /\ l_turn = 0
    /\ token < CONNECTION_TOKEN_START
    /\ token \in ListenerTokens
    /\ l_next_token < CONNECTION_TOKEN_START + MaxAccepts
    /\ l_connections' = Put(l_connections, l_next_token, SocketData_new(token, l_now))
    /\ l_next_token' = l_next_token + 1
    /\ l_in' = Put(l_in, l_next_token, "")
    /\ l_eof' = Put(l_eof, l_next_token, FALSE)
    /\ l_script' = Put(l_script, l_next_token, script)
    /\ l_io' = Put(l_io, l_next_token, l_now)
    /\ UNCHANGED <<l_running, l_token_counter, l_now, l_fs, l_sessions, l_turn,
                   l_removed>>

\* The client of connection t sends its next segment.
LoopSend(t) ==
    /\ l_running
    /\ ~l_eof[t]
    /\ l_script[t] # <<>>
    /\ l_in' = [l_in EXCEPT ![t] = @ \o Head(l_script[t])]
    /\ l_script' = [l_script EXCEPT ![t] = Tail(@)]
    /\ UNCHANGED <<l_running, l_token_counter, l_connections, l_next_token, l_now,
                   l_eof, l_fs, l_sessions, l_turn, l_io, l_removed>>

\* The client of connection t, having sent everything, closes its side.
LoopClose(t) ==
    /\ l_running
    /\ ~l_eof[t]
    /\ l_script[t] = <<>>
    /\ l_eof' = [l_eof EXCEPT ![t] = TRUE]
    /\ UNCHANGED <<l_running, l_token_counter, l_connections, l_next_token, l_now,
                   l_in, l_script, l_fs, l_sessions, l_turn, l_io, l_removed>>

\* An event with the token of a connection: one pass of the inner loop of
\* Server::run, a call of Server::handle on the SocketData of t. None removes
\* the entry of t, Some(true) calls again; a panic ends the process and with
\* it the whole table.
Turn(t, env) ==
    /\ l_running
    /\ t >= CONNECTION_TOKEN_START
    /\ t \in DOMAIN l_connections
    /\ l_turn \in {0, t}
    /\ LET r == Server_handle(l_connections[t].status, l_in[t], l_eof[t], l_fs,
                              l_sessions, Listener, env) IN
         /\ l_running' = (r.ret # "panic")
         /\ l_connections' =
               IF r.ret = "panic" THEN [x \in {} |-> SocketData_new(0, 0)]
               ELSE IF r.ret = "none"
               THEN [x \in DOMAIN l_connections \ {t} |-> l_connections[x]]
               ELSE [l_connections EXCEPT ![t].status = r.conn]
         /\ l_removed' = IF r.ret = "none" THEN l_removed \cup {t} ELSE l_removed
         /\ l_in' = [l_in EXCEPT ![t] = r.avail]
         /\ l_fs' = r.fs
         /\ l_sessions' = r.sessions
         /\ l_turn' = IF r.ret = "true" THEN t ELSE 0
         /\ l_io' = IF Len(r.avail) < Len(l_in[t]) \/ r.sent # ""
                    THEN [l_io EXCEPT ![t] = l_now] ELSE l_io
    /\ UNCHANGED <<l_token_counter, l_next_token, l_now, l_eof, l_script>>

(***************************************************************************)
(* The handles of the session store: the server's, the clone the cleanup   *)
(* thread holds and the clones given to the connections.  A handle is a    *)
(* reference to an allocation that holds the map; every store operation    *)
(* takes the lock of the allocation of its handle, so it is one step.      *)
(***************************************************************************)
VARIABLES
    k_arcs,     \* the allocations: each the map of a store
    k_stores,   \* the handles of the event loop: each the index in k_arcs of
                \* its allocation, the server's first
    k_sweeper,  \* the handle of the cleanup thread
    k_now,      \* the clock
    k_count,    \* how many sessions were made
    k_held,     \* None, or Some of the Session value the event loop holds
    k_gone,     \* the ids that cleanup or destroy removed (history)
    k_ret       \* what the last store operation returned

kvars == <<k_arcs, k_stores, k_sweeper, k_now, k_count, k_held, k_gone, k_ret>>

\* The handles of the event loop in a run: the server's and the connections'.
MaxHandles == 2

\* How many sessions are made through the handles.
MaxShared == 2

\* A clone that copies the map into an allocation of its own.
SessionStore_clone_deep(arcs, arc) ==
    [arcs |-> Append(arcs, arcs[arc]), sessions |-> Len(arcs) + 1]

\* impl Clone for SessionStore, of the handle whose allocation is arc: the
\* allocations afterwards and the allocation of the new handle.
SessionStore_clone(arcs, arc) == [arcs |-> arcs, sessions |-> arc]

\* The map the handle h reaches.
MapOf(h) == k_arcs[k_stores[h]]

\* Arc::new(RwLock::new(HashMap::new())): the allocations with the first one
\* made.
NewArc == <<SessionStore_new>>

\* SessionStore::new(): the allocation of an empty map, the handle returned
\* and the clone start_cleanup moved into the cleanup thread.
SharedStart ==
    /\ k_arcs = SessionStore_clone(NewArc, Len(NewArc)).arcs
    /\ k_stores = <<Len(NewArc)>>
    /\ k_sweeper = SessionStore_clone(NewArc, Len(NewArc)).sessions
    /\ k_now = 0
    /\ k_count = 0
    /\ k_held = None
    /\ k_gone = {}
    /\ k_ret = [op |-> "new"]

\* The handle variables in the specifications that do not use them.
SharedIdle ==
    /\ k_arcs = <<>>
    /\ k_stores = <<>>
    /\ k_sweeper = 0
    /\ k_now = 0
    /\ k_count = 0
    /\ k_held = None
    /\ k_gone = {}
    /\ k_ret = [op |-> "idle"]

\* accept clones the server's handle for the connection.
CloneStore ==
    /\ Len(k_stores) < MaxHandles
    /\ k_arcs' = SessionStore_clone(k_arcs, Head(k_stores)).arcs
    /\ k_stores' = Append(k_stores, SessionStore_clone(k_arcs, Head(k_stores)).sessions)
    /\ k_ret' = [op |-> "clone"]
    /\ UNCHANGED <<k_sweeper, k_now, k_count, k_held, k_gone>>

\* create through the handle h.
CreateOn(h) ==
    /\ k_count < MaxShared
    /\ k_arcs' = [k_arcs EXCEPT ![k_stores[h]] =
                     insert(@, Session_new("s" \o ToDec(k_count + 1), k_now))]
    /\ k_count' = k_count + 1
    /\ k_held' = Some(Session_new("s" \o ToDec(k_count + 1), k_now))
    /\ k_ret' = [op |-> "create"]
    /\ UNCHANGED <<k_stores, k_sweeper, k_now, k_gone>>

\* get through the handle h: the caller holds the clone returned.
GetOn(h, id) ==
    /\ k_held' = SessionStore_get(MapOf(h), id)
    /\ k_ret' = [op |-> "get"]
    /\ UNCHANGED <<k_arcs, k_stores, k_sweeper, k_now, k_count, k_gone>>

\* update through the handle h of the session held.
UpdateOn(h) ==
    /\ k_held.some
    /\ k_arcs' = [k_arcs EXCEPT ![k_stores[h]] = update(@, k_held.v)[1]]
    /\ k_ret' = [op |-> "update", ok |-> update(MapOf(h), k_held.v)[2]]
    /\ UNCHANGED <<k_stores, k_sweeper, k_now, k_count, k_held, k_gone>>

\* destroy through the handle h.
DestroyOn(h, id) ==
    /\ k_arcs' = [k_arcs EXCEPT ![k_stores[h]] = destroy(@, id)[1]]
    /\ k_gone' = k_gone \cup ({id} \cap DOMAIN MapOf(h))
    /\ k_ret' = [op |-> "destroy", ok |-> destroy(MapOf(h), id)[2]]
    /\ UNCHANGED <<k_stores, k_sweeper, k_now, k_count, k_held>>

\* One sweep of the cleanup thread, through its own handle.
Sweep ==
    /\ k_arcs' = [k_arcs EXCEPT ![k_sweeper] =
                     cleanup(@, [id \in DOMAIN @ |-> k_now])[1]]
    /\ k_gone' = k_gone \cup
                   (DOMAIN k_arcs[k_sweeper]
                      \ DOMAIN cleanup(k_arcs[k_sweeper],
                                       [id \in DOMAIN k_arcs[k_sweeper] |-> k_now])[1])
    /\ k_ret' = [op |-> "cleanup"]
    /\ UNCHANGED <<k_stores, k_sweeper, k_now, k_count, k_held>>

\* Time passes: the sessions made so far expire.
Expire ==
    /\ k_now = 0
    /\ k_now' = k_now + NEW_EXPIRY_SECS
    /\ UNCHANGED <<k_arcs, k_stores, k_sweeper, k_count, k_held, k_gone, k_ret>>

\* The handles of the event loop.
LoopHandles == DOMAIN k_stores

vars == <<pvars, fvars, dvars, hvars, rvars, svars, cvars, mvars, bvars, lvars, kvars>>

InitParser == ParserStart /\ FileIdle /\ DispatchIdle /\ ServerIdle /\ RoutingIdle /\ SessionIdle /\ CookieIdle /\ MultipartIdle /\ BufferedIdle /\ LoopIdle /\ SharedIdle

NextParser ==
    /\ \/ \E k \in PieceSizes(p_rest, p_input) : \E c \in BOOLEAN : Feed(k, c)
       \/ \E k \in PieceSizes(p_rest, p_input) :
             \E c \in BOOLEAN : FeedAfterError(k, c)
    /\ UNCHANGED <<fvars, dvars, hvars, rvars, svars, cvars, mvars, bvars, lvars, kvars>>

SpecParser == InitParser /\ [][NextParser]_vars

InitFile == FileStart /\ ParserIdle /\ DispatchIdle /\ ServerIdle /\ RoutingIdle /\ SessionIdle /\ CookieIdle /\ MultipartIdle /\ BufferedIdle /\ LoopIdle /\ SharedIdle

NextFile ==
    /\ \E e \in WriteEnv(f_resp) : FileWrite(e)
    /\ UNCHANGED <<pvars, dvars, hvars, rvars, svars, cvars, mvars, bvars, lvars, kvars>>

SpecFile == InitFile /\ [][NextFile]_vars

InitDispatch == DispatchStart /\ ParserIdle /\ FileIdle /\ ServerIdle /\ RoutingIdle /\ SessionIdle /\ CookieIdle /\ MultipartIdle /\ BufferedIdle /\ LoopIdle /\ SharedIdle

NextDispatch ==
    /\ \/ \E raw \in DispatchInputs : Receive(raw)
       \/ \E env \in EnvsFor(d_parser) : Dispatch(env)
    /\ UNCHANGED <<pvars, fvars, hvars, rvars, svars, cvars, mvars, bvars, lvars, kvars>>

SpecDispatch == InitDispatch /\ [][NextDispatch]_vars

InitServer == ServerStart /\ ParserIdle /\ FileIdle /\ DispatchIdle /\ RoutingIdle /\ SessionIdle /\ CookieIdle /\ MultipartIdle /\ BufferedIdle /\ LoopIdle /\ SharedIdle

NextServer ==
    /\ \/ \E script \in Scripts : Accept(script)
       \/ \E t \in DOMAIN h_conns : ClientSend(t)
       \/ \E t \in DOMAIN h_conns : ClientClose(t)
       \/ \E t \in DOMAIN h_conns : \E env \in HandleEnvs(h_conns[t], h_in[t]) : Handle(t, env)
    /\ UNCHANGED <<pvars, fvars, dvars, rvars, svars, cvars, mvars, bvars, lvars, kvars>>

SpecServer == InitServer /\ [][NextServer]_vars

InitRouting ==
    RoutingStart /\ ParserIdle /\ FileIdle /\ DispatchIdle /\ ServerIdle /\ SessionIdle /\ CookieIdle /\ MultipartIdle /\ BufferedIdle /\ LoopIdle /\ SharedIdle

NextRouting ==
    /\ MatchRoute
    /\ UNCHANGED <<pvars, fvars, dvars, hvars, svars, cvars, mvars, bvars, lvars, kvars>>

SpecRouting == InitRouting /\ [][NextRouting]_vars

InitSession ==
    SessionStart /\ ParserIdle /\ FileIdle /\ DispatchIdle /\ ServerIdle /\ RoutingIdle /\ CookieIdle /\ MultipartIdle /\ BufferedIdle /\ LoopIdle /\ SharedIdle

NextSession ==
    /\ \/ Create
       \/ \E user \in Users : CreateWithUser(user)
       \/ \E id \in SessionIds : Get(id)
       \/ Renew
       \/ Update
       \/ \E id \in SessionIds : Destroy(id)
       \/ \E d \in SweepDelays :
             \E at \in [DOMAIN s_sessions -> SweepInstants(d)] : Cleanup(d, at)
       \/ \E d \in TickSteps : Tick(d)
    /\ UNCHANGED <<pvars, fvars, dvars, hvars, rvars, cvars, mvars, bvars, lvars, kvars>>

SpecSession == InitSession /\ [][NextSession]_vars

InitCookie ==
    CookieStart /\ ParserIdle /\ FileIdle /\ DispatchIdle /\ ServerIdle /\ RoutingIdle /\ SessionIdle /\ MultipartIdle /\ BufferedIdle /\ LoopIdle /\ SharedIdle

NextCookie ==
    /\ \/ Render
       \/ ParseBack
    /\ UNCHANGED <<pvars, fvars, dvars, hvars, rvars, svars, mvars, bvars, lvars, kvars>>

SpecCookie == InitCookie /\ [][NextCookie]_vars

InitMultipart ==
    MultipartStart /\ ParserIdle /\ FileIdle /\ DispatchIdle /\ ServerIdle /\ RoutingIdle /\ SessionIdle /\ CookieIdle /\ BufferedIdle /\ LoopIdle /\ SharedIdle

NextMultipart ==
    /\ \/ Build
       \/ Extract
    /\ UNCHANGED <<pvars, fvars, dvars, hvars, rvars, svars, cvars, bvars, lvars, kvars>>

SpecMultipart == InitMultipart /\ [][NextMultipart]_vars

InitBuffered ==
    BufferedStart /\ ParserIdle /\ FileIdle /\ DispatchIdle /\ ServerIdle /\ RoutingIdle /\ SessionIdle /\ CookieIdle /\ MultipartIdle /\ LoopIdle /\ SharedIdle

NextBuffered ==
    /\ \E wr \in WriteOutcomes(peek(b_resp)) : BufferedWrite(wr)
    /\ UNCHANGED <<pvars, fvars, dvars, hvars, rvars, svars, cvars, mvars, lvars, kvars>>

SpecBuffered == InitBuffered /\ [][NextBuffered]_vars

InitLoop ==
    LoopStart /\ ParserIdle /\ FileIdle /\ DispatchIdle /\ ServerIdle /\ RoutingIdle /\ SessionIdle /\ CookieIdle /\ MultipartIdle /\ BufferedIdle /\ SharedIdle

NextLoop ==
    /\ \/ \E n \in ListenerCounts : Run(n)
       \/ ClockTick
       \/ \E token \in EventTokens : \E script \in LoopScripts : AcceptOn(token, script)
       \/ \E t \in DOMAIN l_connections : LoopSend(t)
       \/ \E t \in DOMAIN l_connections : LoopClose(t)
       \/ \E t \in DOMAIN l_connections :
             \E env \in HandleEnvs(l_connections[t].status, l_in[t]) : Turn(t, env)
    /\ UNCHANGED <<pvars, fvars, dvars, hvars, rvars, svars, cvars, mvars, bvars, kvars>>

SpecLoop == InitLoop /\ [][NextLoop]_vars

InitShared ==
    SharedStart /\ ParserIdle /\ FileIdle /\ DispatchIdle /\ ServerIdle /\ RoutingIdle /\ SessionIdle /\ CookieIdle /\ MultipartIdle /\ BufferedIdle /\ LoopIdle

NextShared ==
    /\ \/ CloneStore
       \/ \E h \in LoopHandles : CreateOn(h)
       \/ \E h \in LoopHandles : \E id \in SessionIds : GetOn(h, id)
       \/ \E h \in LoopHandles : UpdateOn(h)
       \/ \E h \in LoopHandles : \E id \in SessionIds : DestroyOn(h, id)
       \/ Sweep
       \/ Expire
    /\ UNCHANGED <<pvars, fvars, dvars, hvars, rvars, svars, cvars, mvars, bvars, lvars>>

SpecShared == InitShared /\ [][NextShared]_vars

\* The parser after a single append of the whole request.
Whole(R) == append(HttpRequestBuilder_new, R, TRUE)

ValidRequest(R) == Whole(R).ctl = "Ok" /\ done(Whole(R).p)

\* C1: for every valid request and every partition of its bytes, feeding the
\* pieces in order ends with done() and the same parsed request as one append.
C1_IncrementalParse ==
    (ValidRequest(p_input) /\ p_rest = "")
        => /\ p_res = "Ok"
           /\ done(p_parser)
           /\ p_parser.request = Whole(p_input).p.request

\* C2: a non-chunked parser that declared Content-Length N is done only with
\* exactly N body bytes absorbed.
C2_FixedBodyComplete ==
    (done(p_parser) /\ ~p_parser.chunked
        /\ HttpHeaders_get(p_parser.request.headers, "content-length").some)
        => Len(p_parser.request.body) = p_parser.body_size

\* C3: a chunked body delivered in any pieces never makes append fail, the
\* parser is done only when the zero-size chunk has arrived, and the finished
\* body is the concatenation of the chunk payloads.
C3_ChunkedPartial ==
    p_input = ReqChunked
        => /\ p_res \in {"none", "Ok"}
           /\ done(p_parser) => Len(p_rest) <= 2
           /\ done(p_parser) => p_parser.request.body = ReqChunkedPayload
           /\ p_rest = "" => done(p_parser)

\* C10: no parser state holds more than MAX_HEADER_COUNT headers, and a request
\* with more header lines than that never reaches Finish.
C10_HeaderCountCap ==
    /\ HttpHeaders_len(p_parser.request.headers) <= MAX_HEADER_COUNT
    /\ (\E n \in (MAX_HEADER_COUNT + 1)..(MAX_HEADER_COUNT + 2) :
            p_input = ReqHeaders(n)) => ~done(p_parser)

\* The errors of append that report an exceeded cap.
EntityTooLarge == {"Entity Too Large", "Header number exceed allowed"}

\* C11: a request with a header line longer than MAX_HEADER_SIZE never reaches
\* Finish, and once it was delivered append has failed with a cap error.
C11_HeaderLineCap ==
    p_input \in OverlongRequests
        => /\ ~done(p_parser)
           /\ p_rest = "" => p_res \in EntityTooLarge

\* C7: the client receives the header block and then the file's bytes, in
\* order and each once, whatever the reads and writes return; the producer is
\* finished only when the headers are sent, the file was read to its end and
\* has returned a zero-byte read, and the staging window is empty, and then the
\* client has received everything.
C7_FileByteConservation ==
    f_resp.kind = "file" =>
        /\ f_out = Take(f_resp.headers \o f_resp.file, Len(f_out))
        /\ Len(f_out) = f_resp.headers_index + (f_resp.pos - (f_resp.buf_len - f_resp.buf_index))
        /\ is_finished(f_resp) =>
              /\ f_resp.headers_index = Len(f_resp.headers)
              /\ f_resp.pos = Len(f_resp.file) /\ f_resp.finished
              /\ f_resp.buf_index = f_resp.buf_len
              /\ f_out = f_resp.headers \o f_resp.file

\* A file of the largest size was streamed to its end through partial writes.
C7_Witness ==
    /\ f_resp.kind = "file" /\ is_finished(f_resp)
    /\ Len(f_resp.file) = MaxFileLen /\ f_short
    /\ f_out = f_resp.headers \o f_resp.file

\* The status code of a response producer's first line.
StatusOf(response) ==
    SubSeq(IF response.kind = "simple" THEN response.data ELSE response.headers,
           10, 12)

\* The request of the last dispatch, its server and its route.
Dispatched == d_stage = "idle" /\ d_out.some

DispatchedRequest == get(d_parser).v

DispatchedServer ==
    select_server(Listener, extract_hostname(DispatchedRequest.headers))

DispatchedRoute == find_matching_route(DispatchedServer, DispatchedRequest.path)

\* The request went past redirect and method gate to path resolution.
ReachedResolution ==
    /\ Dispatched
    /\ DispatchedRoute.some
    /\ ~DispatchedRoute.v.redirect.some
    /\ \E i \in 1..Len(DispatchedRoute.v.methods) :
          HttpMethod_from_str(DispatchedRoute.v.methods[i]) = DispatchedRequest.method

\* The canonical base directory of the dispatched request's route.
DispatchedBase ==
    canonicalize(d_out.v.before,
                 DispatchedServer.root \o "/" \o DispatchedRoute.v.root)

\* The request path, joined to the base directory, leads to an existing node
\* (or, the last component missing, to an existing parent) outside of it.
PathEscapes ==
    /\ ReachedResolution
    /\ DispatchedBase.some
    /\ LET full   == path_join(DispatchedBase.v,
                         RelativePath(DispatchedRoute.v, DispatchedRequest.path))
           canon  == canonicalize(d_out.v.before, full)
           parent == path_parent(full)
           near   == IF canon.some \/ ~parent.some THEN canon
                     ELSE canonicalize(d_out.v.before, parent.v)
       IN  near.some /\ ~path_starts_with(near.v, DispatchedBase.v)

\* The node an operation reached, None when it reached none.
NodeOfOp(fs, op) ==
    IF ~op.ok THEN None
    ELSE IF op.op \in {"write", "remove"} THEN EntryOf(fs, op.path)
    ELSE canonicalize(fs, op.path)

\* The operations of the last dispatch that reached a node outside the base
\* directory.
OpsOutsideBase ==
    {i \in 1..Len(d_out.v.ops) :
        LET n == NodeOfOp(d_out.v.before, d_out.v.ops[i]) IN
        n.some /\ ~path_starts_with(n.v, DispatchedBase.v)}

\* C8: a request whose path resolves outside the base directory of its route
\* is answered 404, and no file outside the base directory is read, written,
\* deleted or executed for it, whatever the method.
C8_PathContainment ==
    PathEscapes => (StatusOf(d_out.v.response) = "404" /\ OpsOutsideBase = {})

\* The body length a request declared: its Content-Length, or the sum of the
\* sizes of its chunks.
DeclaredBody(p) == p.body_size

\* C9: a request whose declared or chunked-aggregate body exceeds
\* client_max_body_size is answered 413 and no handler runs for it, and the
\* parser never holds more body bytes than client_max_body_size.
C9_BodyCap ==
    /\ Len(d_parser.request.body) <= MainServer.client_max_body_size
    /\ (Dispatched
          /\ DeclaredBody(d_parser) > DispatchedServer.client_max_body_size)
         => (StatusOf(d_out.v.response) = "413" /\ d_out.v.ops = <<>>)

\* The Connection header of the request a connection holds.
ConnectionHeader(conn) == HttpHeaders_get(conn.request.request.headers, "connection")

\* The header is there and its value is keep-alive, letter for letter.
AsksKeepAliveExact(conn) ==
    ConnectionHeader(conn).some /\ ConnectionHeader(conn).v = "keep-alive"

\* The header is there and its value is keep-alive in any letter case.
AsksKeepAlive(conn) ==
    ConnectionHeader(conn).some
        /\ to_lowercase(ConnectionHeader(conn).v) = "keep-alive"

\* The connection t is in phase Write and its producer is finished.
Drained(t) ==
    /\ t \in DOMAIN h_conns
    /\ h_conns[t].status = "Write"
    /\ h_conns[t].response.some
    /\ is_finished(h_conns[t].response.v)

\* The step changes the record of t or removes it from the table.
Touched(t) == t \notin DOMAIN h_conns' \/ h_conns'[t] # h_conns[t]

\* The step takes t from Write back to Read.
Recycled(t) ==
    /\ t \in DOMAIN h_conns /\ h_conns[t].status = "Write"
    /\ t \in DOMAIN h_conns' /\ h_conns'[t].status = "Read"

\* The keep-alive decision with keeps(conn) as the test on the request: a
\* step on a drained connection resets it when the test holds and removes it
\* otherwise; a connection goes back to Read only when the test holds, as a
\* fresh record, all its responses written; and a connection removed at the
\* end of a response has had all its responses written.
KeepAliveDecision(keeps(_)) ==
    \A t \in DOMAIN h_conns :
       /\ (Drained(t) /\ Touched(t)) =>
             IF keeps(h_conns[t])
             THEN t \in DOMAIN h_conns' /\ h_conns'[t] = SocketStatus_new
             ELSE t \notin DOMAIN h_conns'
       /\ Recycled(t) =>
             /\ keeps(h_conns[t])
             /\ h_conns'[t] = SocketStatus_new
             /\ h_log'[t].sent = h_log'[t].owed
       /\ (t \notin DOMAIN h_conns' /\ h_log'[t].how = "end") =>
             h_log'[t].sent = h_log'[t].owed

C5_KeepAliveOrdering ==
    [][\A t \in DOMAIN h_conns :
          /\ h_log'[t].consumed # h_log[t].consumed =>
                /\ h_conns[t].status = "Read"
                /\ h_log[t].sent = h_log[t].owed
          /\ (h_conns[t].status = "Write" /\ t \in DOMAIN h_conns') =>
                \/ h_conns'[t].request = h_conns[t].request
                \/ /\ h_conns'[t].request = HttpRequestBuilder_new
                   /\ h_conns'[t].status = "Read"
                   /\ h_log'[t].sent = h_log'[t].owed]_vars

\* After a response was drained and the connection reset, bytes of the next
\* request were read and fed to the new parser.
C5_Witness ==
    \E t \in DOMAIN h_conns :
       /\ h_log[t].served >= 1 /\ h_log[t].fed > 0
       /\ h_log[t].sent = h_log[t].owed /\ h_log[t].owed # ""

\* C6: a connection in phase Read whose parser was fed nothing since the
\* accept or the last reset, after any number of requests served, has the
\* record of a freshly accepted connection: phase Read, a parser in Init with
\* empty buffer and empty request, no producer.
C6_KeepAliveIdempotence ==
    \A t \in DOMAIN h_conns :
       (h_conns[t].status = "Read" /\ h_log[t].fed = 0) =>
           h_conns[t] = SocketStatus_new

\* A connection that served two requests and was reset.
C6_Witness ==
    \E t \in DOMAIN h_conns :
       /\ h_log[t].served = 2 /\ h_log[t].fed = 0
       /\ h_conns[t] = SocketStatus_new

\* The route path is /, or the request path, or a prefix of the request path
\* that a / follows.
IsCandidate(route_path, request_path) ==
    \/ route_path = "/"
    \/ route_path = request_path
    \/ /\ Len(request_path) > Len(route_path)
       /\ SubSeq(request_path, 1, Len(route_path)) = route_path
       /\ At(request_path, Len(route_path) + 1) = "/"

Candidates == {i \in 1..Len(r_routes) : IsCandidate(r_routes[i].path, r_path)}

\* C12: the route selected is a candidate of maximal path length, and no
\* route is selected only when there is no candidate.
C12_LongestPrefixRoute ==
    r_out.some =>
        /\ ~r_out.v.some <=> Candidates = {}
        /\ r_out.v.some =>
              /\ \E i \in Candidates : r_routes[i] = r_out.v.v
              /\ \A i \in Candidates :
                    Len(r_routes[i].path) <= Len(r_out.v.v.path)

\* With routes / and /api, /api was selected for /api/v1.
C12_Witness ==
    /\ r_out.some /\ r_out.v.some
    /\ r_path = "/api/v1"
    /\ Len(r_routes) = 2
    /\ r_routes[1].path = "/" /\ r_routes[2].path = "/api"
    /\ r_out.v.v = r_routes[2]

\* The hostname of a request: the Host value without its :port, lower-cased.
HostnameOf(request) ==
    LET h == HttpHeaders_get(request.headers, "host") IN
    IF h.some THEN to_lowercase(split(h.v, ":")[1]) ELSE ""

\* The servers of the listener named as the hostname.
Named(hostname) ==
    {i \in 1..Len(Listener.servers) : Listener.servers[i].server_name = hostname}

\* C13: a request is served by the listener's server whose server_name equals
\* the Host value without :port and lower-cased, and by the default server
\* when there is none or the header is absent.
C13_HostDispatch ==
    Dispatched =>
        IF Named(HostnameOf(DispatchedRequest)) = {}
        THEN DispatchedServer = Listener.servers[Listener.default_server_index + 1]
        ELSE DispatchedServer.server_name = HostnameOf(DispatchedRequest)

\* The header block of a response producer.
HeadOf(response) ==
    LET bytes == IF response.kind = "simple" THEN response.data
                 ELSE response.headers
    IN  Take(bytes, Find(bytes, "\r\n\r\n") + 1)

\* The last dispatch found a route, and the route has no redirect.
GatedRoute == Dispatched /\ DispatchedRoute.some /\ ~DispatchedRoute.v.redirect.some

\* The request method is one of the methods the route lists.
MethodListed ==
    \E i \in 1..Len(DispatchedRoute.v.methods) :
        to_uppercase(DispatchedRoute.v.methods[i]) = to_uppercase(DispatchedRequest.method)

\* The response is 405 Method Not Allowed with the route's methods in Allow.
Is405 ==
    /\ StartsWith(HeadOf(d_out.v.response), "HTTP/1.1 405 Method Not Allowed\r\n")
    /\ Contains(to_lowercase(HeadOf(d_out.v.response)),
                "\r\nallow: "
                    \o to_lowercase(join(DispatchedRoute.v.methods, ", ")) \o "\r\n")

\* C14: on a matched route without redirect the response is 405 with an Allow
\* header listing the route's methods exactly when the request method is not
\* one of them.
C14_MethodGating == GatedRoute => (Is405 <=> ~MethodListed)

\* The last dispatch matched a route that has a redirect target.
RedirectRoute == Dispatched /\ DispatchedRoute.some /\ DispatchedRoute.v.redirect.some

\* The response is 302 Found with the target in Location.
Is302To(target) ==
    /\ StartsWith(HeadOf(d_out.v.response), "HTTP/1.1 302 Found\r\n")
    /\ Contains(HeadOf(d_out.v.response), "\r\nlocation: " \o target \o "\r\n")

\* C15: on a route with a redirect target the response is 302 Found with that
\* target in Location whatever the method and path, no file operation is
\* made, the filesystem is as before and the connection goes on to Write.
C15_RedirectFirst ==
    RedirectRoute =>
        /\ Is302To(DispatchedRoute.v.redirect.v)
        /\ d_out.v.ops = <<>>
        /\ d_fs = d_out.v.before
        /\ d_out.v.ret

\* A POST to a route that lists only GET and has a redirect was answered 302.
C15_Witness ==
    /\ RedirectRoute
    /\ DispatchedRequest.method = "POST"
    /\ ~MethodListed
    /\ Is302To("/")

\* The last dispatch handed the request to the CGI bridge.
CgiHandled ==
    /\ ReachedResolution
    /\ DispatchedRoute.v.cgi.some
    /\ EndsWith(DispatchedRequest.path, DispatchedRoute.v.cgi.v)

\* C16: a request handed to the CGI bridge is answered with the script's
\* output or, on every failure, with a 500 response that is installed as the
\* producer of a connection that goes on to Write; it is never dropped.
C16_CgiFailure500 ==
    CgiHandled =>
        /\ StatusOf(d_out.v.response) \in {"200", "500"}
        /\ d_out.v.ret

\* The request target: the second word of the request line.
RequestTarget == split_whitespace(Take(d_raw, Find(d_raw, "\r\n") - 1))[2]

\* The target before its first ?, and the text after it (empty without one).
TargetPath ==
    IF Contains(RequestTarget, "?")
    THEN Take(RequestTarget, Find(RequestTarget, "?") - 1) ELSE RequestTarget

TargetQuery ==
    IF Contains(RequestTarget, "?")
    THEN Drop(RequestTarget, Find(RequestTarget, "?")) ELSE ""

\* The interpreters started by the last dispatch.
Executions ==
    {i \in 1..Len(d_out.v.ops) : d_out.v.ops[i].op = "exec"}

\* C17: the interpreter started for a request gets the text after the first ?
\* of the request target as QUERY_STRING and the path before it as PATH_INFO.
C17_CgiQueryString ==
    (Dispatched /\ CgiHandled) =>
        \A i \in Executions :
            /\ d_out.v.ops[i].env["QUERY_STRING"] = TargetQuery
            /\ d_out.v.ops[i].env["PATH_INFO"] = TargetPath


\* The last store operation was a sweep.
Swept == s_ret.op = "cleanup"

\* A step of the sweep.
SweepStep ==
    \E d \in SweepDelays :
        \E at \in [DOMAIN s_sessions -> SweepInstants(d)] : Cleanup(d, at)

\* C18 (session expiry sweep): when cleanup() has returned, get(id) returns
\* nothing for every session whose expires_at had passed when the sweep
\* started, every session whose expires_at has not been reached is still
\* returned by get(id) as it was before the sweep, and the value cleanup
\* returned is the number of sessions it removed.
C18_ExpirySweep ==
    [][SweepStep =>
        /\ \A id \in DOMAIN s_sessions :
              /\ s_sessions[id].expires_at <= s_now
                    => SessionStore_get(s_sessions', id) = None
              /\ s_now' < s_sessions[id].expires_at
                    => SessionStore_get(s_sessions', id) = Some(s_sessions[id])
        /\ s_ret'.removed = Cardinality(DOMAIN s_sessions \ DOMAIN s_sessions')
      ]_vars

\* A sweep has removed an expired session and kept one not yet expired.
C18_Witness ==
    /\ Swept
    /\ s_ret.removed = 1
    /\ \E id \in DOMAIN s_made \ DOMAIN s_sessions :
            s_made[id] = "create" /\ s_now >= NEW_EXPIRY_SECS
    /\ \E id \in DOMAIN s_sessions : s_now < s_sessions[id].expires_at

\* The Session values there are: those in the store and the one a caller holds.
SessionValues ==
    {s_sessions[id] : id \in DOMAIN s_sessions}
        \cup (IF s_held.some THEN {s_held.v} ELSE {})

\* C19 (logged-in invariant): at every time is_logged_in() of a session is
\* true iff its user_id is set and now < expires_at; a session made by
\* create() is never logged in; a session made by create_with_user that was
\* never renewed is logged in exactly until the expiry it was made with.
C19_LoggedIn ==
    \A s \in SessionValues :
        /\ is_logged_in(s, s_now) <=> (s.user_id.some /\ s_now < s.expires_at)
        /\ s_made[s.id] = "create" => ~is_logged_in(s, s_now)
        /\ (s_made[s.id] = "create_with_user" /\ s.id \notin s_renewed)
              => (is_logged_in(s, s_now) <=> s_now < s.created_at + NEW_EXPIRY_SECS)

\* Two sessions of users past the expiry they were made with: one never
\* renewed, no longer logged in, and one renewed, still logged in.
C19_Witness ==
    \E s, t \in SessionValues :
        /\ s.user_id.some /\ s.id \notin s_renewed
        /\ s_now >= s.expires_at /\ ~is_logged_in(s, s_now)
        /\ t.user_id.some /\ t.id \in s_renewed
        /\ s_now >= t.created_at + NEW_EXPIRY_SECS /\ is_logged_in(t, s_now)


\* The session id the request of the last dispatch came with.
RequestSessionId ==
    extract_session_id(HttpHeaders_get(DispatchedRequest.headers, "cookie"))

\* The request came with the id of a session that was in the store.
SessionFound ==
    RequestSessionId.some /\ RequestSessionId.v \in DOMAIN d_out.v.sessions

\* The sessions the last dispatch put into the store.
SessionsMade == DOMAIN d_sessions \ DOMAIN d_out.v.sessions

\* The session step of the last dispatch: the session found was renewed and
\* no other made, or just one was made.
SessionStepDone ==
    IF SessionFound
    THEN /\ SessionsMade = {}
         /\ d_sessions[RequestSessionId.v].expires_at
                = d_out.v.sessions[RequestSessionId.v].created_at + RENEW_SECS
    ELSE Cardinality(SessionsMade) = 1

\* The session of the last dispatch.
DispatchedSession ==
    IF SessionFound THEN RequestSessionId.v ELSE CHOOSE id \in SessionsMade : TRUE

\* The header block has a Set-Cookie line naming the session.
CarriesCookie(response, id) ==
    Contains(to_lowercase(HeadOf(response)),
             "\r\nset-cookie: session_id=" \o to_lowercase(id))

\* C20 (session cookie on every response): for every dispatched request the
\* session step was made (the session its session_id cookie names was found
\* in the store and renewed, or else a new session was created) and the
\* response installed, of whatever kind, carries Set-Cookie: session_id=<id>
\* for that session.
C20_SessionCookie ==
    Dispatched =>
        /\ SessionStepDone
        /\ CarriesCookie(d_out.v.response, DispatchedSession)


\* The last dispatch was a DELETE that passed the method gate of its route.
DeleteRequest == ReachedResolution /\ DispatchedRequest.method = "DELETE"

\* The file the DELETE names, as resolved before the dispatch.
DeleteTarget ==
    resolve_file_path(d_out.v.before, DispatchedServer, DispatchedRoute.v,
                      DispatchedRequest.path)

TargetExisted == DeleteTarget.some /\ IsFile(d_out.v.before, DeleteTarget.v)

\* An existing file is removed, nothing else changes and the answer is 204; a
\* file that is not there is answered 404 and nothing changes.
DeleteOutcome ==
    IF TargetExisted
    THEN /\ StatusOf(d_out.v.response) = "204"
         /\ DeleteTarget.v \notin DOMAIN d_fs
         /\ d_fs = [q \in DOMAIN d_out.v.before \ {DeleteTarget.v} |->
                       d_out.v.before[q]]
    ELSE /\ StatusOf(d_out.v.response) = "404"
         /\ d_fs = d_out.v.before

LengthInForce == HttpHeaders_get(p_parser.request.headers, "content-length").some

PastHeaders == p_parser.state \in {"Body", "Finish"}

\* C22: of a Content-Length header and a Transfer-Encoding header whose value is
\* chunked in any letter case, the one seen first decides the framing and the
\* later one has no effect: past the headers, at most one of them is in force.
C22_FramingPrecedence ==
    /\ (p_input \in ChunkedFirstRequests /\ PastHeaders)
         => (p_parser.chunked /\ ~LengthInForce)
    /\ (p_input \in LengthFirstRequests /\ PastHeaders)
         => (~p_parser.chunked /\ LengthInForce /\ p_parser.body_size = 3)

\* A request of either order has reached the body.
C22_Witness ==
    /\ p_input \in ChunkedFirstRequests
    /\ p_parser.state = "Body"
    /\ p_parser.chunked

\* The later Content-Length took effect on a chunked parser.
C22_BothInForce == PastHeaders /\ p_parser.chunked /\ LengthInForce

\* What the last call of Server::handle on a connection came to.
Outcomes == {h_log[t].how : t \in DOMAIN h_log}

\* C23: every call of the per-connection handler returns one of the three
\* outcomes pause, continue and drop; none panics or takes the event loop down.
C23_ErrorsContained == ~Aborted

\* A connection was dropped for a parse error met while reading.
C23_Witness == \E t \in DOMAIN h_log : h_log[t].how = "read"

\* The cookies read back that have the name and the value of the cookie
\* rendered.
ReadBack ==
    {i \in 1..Len(c_parsed.v) :
        /\ c_parsed.v[i].name = c_cookie.name
        /\ c_parsed.v[i].value = c_cookie.value}

\* C24: Cookie::parse of a cookie's to_header_value yields a cookie of the same
\* name and value, also for values with characters that are percent-encoded.
C24_CookieRoundTrip == c_parsed.some => ReadBack # {}

\* A value with an escaped character went through both conversions.
C24_Witness ==
    /\ c_parsed.some
    /\ urlencoding_encode(c_cookie.value) # c_cookie.value

\* For values of unreserved characters the round trip holds.
C24_PlainRoundTrip ==
    (c_parsed.some /\ urlencoding_encode(c_cookie.value) = c_cookie.value)
        => 1 \in ReadBack

\* C25: extract_multipart_files on the body built from (filename, bytes) pairs
\* and a boundary returns exactly those pairs, the bytes unchanged, whatever the
\* contents: ending in CRLF or in "--", empty, or not UTF-8.
C25_MultipartRoundTrip == m_out.some => m_out.v = m_files

\* Contents that do not end in CRLF or "--" and are UTF-8.
PlainContents == {"abc", "", "x\r\ny"}

\* Files of plain contents come back as they were.
C25_PlainRoundTrip ==
    (m_out.some /\ \A i \in 1..Len(m_files) : m_files[i][2] \in PlainContents)
        => m_out.v = m_files

\* Two files went through.
C25_Witness == m_out.some /\ Len(m_files) = MaxParts /\ m_out.v = m_files

\* A call of Server::handle on the connection t changed it and returned
\* Some(false): the loop of the turn stopped with the connection kept.
PausedOn(t) ==
    /\ UNCHANGED <<h_next_token, h_eof, h_script>>
    /\ h_turn' = 0
    /\ ~Aborted'
    /\ t \in DOMAIN h_conns'
    /\ <<h_conns'[t], h_in'[t], h_log'[t]>> # <<h_conns[t], h_in[t], h_log[t]>>

\* The call that paused met a socket that would block: a read that found
\* nothing more to read, or a write that wrote nothing.
BlockedOn(t) ==
    IF h_conns[t].status = "Read" THEN h_in'[t] = ""
    ELSE h_log'[t].sent = h_log[t].sent

\* C26: the loop of a turn stops only when a read or a write would block or the
\* connection is dropped; the call that writes the last byte of a response does
\* not pause, the reset or the close follows in the same turn.
C26_PauseOnlyOnBlock ==
    [][\A t \in DOMAIN h_conns : PausedOn(t) => BlockedOn(t)]_vars

\* A connection waits for an event with its whole response written and neither
\* reset nor closed.
C26_DrainedAndWaiting ==
    \E t \in DOMAIN h_conns :
       /\ h_turn = 0
       /\ h_conns[t].status = "Write"
       /\ h_conns[t].response.some
       /\ is_finished(h_conns[t].response.v)
       /\ h_log[t].sent = h_log[t].owed

\* The place of a parser state in the order Init, Headers, Body, Finish.
StateRank(state) ==
    CASE state = "Init" -> 0 [] state = "Headers" -> 1
      [] state = "Body" -> 2 [] state = "Finish" -> 3

\* No append call takes the parser to an earlier state.
C27_ForwardOnly ==
    [][StateRank(p_parser'.state) >= StateRank(p_parser.state)]_vars

\* C27: over any sequence of append calls the state only moves forward along
\* Init, Headers, Body, Finish, and once an append returned an error the parser
\* never reports done().
C27_StateOrder ==
    [][/\ StateRank(p_parser'.state) >= StateRank(p_parser.state)
       /\ IsErr(p_res') => ~done(p_parser')]_vars

\* The parser is done although one of the append calls returned an error.
C27_DoneAfterError == IsErr(p_res) /\ done(p_parser)

\* An append call was made on a parser that was done().
AppendWhenDone == done(p_parser) /\ p_rest' # p_rest

\* An append on a done() parser leaves the state and the parsed request as
\* they were.
C28_RequestKept ==
    [][AppendWhenDone => /\ p_parser'.state = p_parser.state
                         /\ p_parser'.request = p_parser.request]_vars

\* C28: once done() is true every further append returns success and leaves
\* the whole parser unchanged: the parsed request, the state and the internal
\* buffer.
C28_FinishAbsorbing ==
    [][AppendWhenDone => /\ p_res' = p_res
                         /\ p_parser' = p_parser]_vars

\* C29: for a buffered response of L bytes and any sequence of write outcomes
\* the cursor stays within 0..L, peek returns the bytes from the cursor to the
\* end, the bytes sent are the buffer's bytes in order, each exactly once, and
\* is_finished holds exactly when the cursor is at least L.
C29_BufferedResumption ==
    /\ b_resp.index \in 0..Len(b_resp.data)
    /\ peek(b_resp) = SubSeq(b_resp.data, b_resp.index + 1, Len(b_resp.data))
    /\ b_out = SubSeq(b_resp.data, 1, b_resp.index)
    /\ b_out \o peek(b_resp) = b_resp.data
    /\ is_finished(b_resp) <=> b_resp.index >= Len(b_resp.data)

\* A response of the greatest length was written to its end and the producer
\* is finished.
C29_Witness ==
    /\ Len(b_resp.data) = MaxBufLen
    /\ is_finished(b_resp)
    /\ b_out = b_resp.data
    /\ b_ret = Some(FALSE)

\* read_request on the connection t ends in None: a read of zero bytes at the
\* end of the stream, or an append that returned an error.
ReadFails(t, overflow_checks) ==
    With(read_request(h_conns[t].request, h_in[t], h_eof[t], overflow_checks),
         LAMBDA rr :
            rr.ret = "none" =>
               With(AfterRead(h_conns[t], h_fs, h_sessions, Listener, rr,
                              [overflow_checks |-> overflow_checks]),
                    LAMBDA r : /\ r.ret = "none"
                               /\ r.sent = ""
                               /\ ~r.conn.response.some
                               /\ r.fs = h_fs))

\* A socket error on the first read of the connection t.
SocketFails(t) ==
    With(handle_read_state(h_conns[t], h_in[t], h_eof[t], h_fs, h_sessions,
                           Listener, [sock_err |-> TRUE]),
         LAMBDA r : /\ r.ret = "none"
                    /\ r.sent = ""
                    /\ ~r.conn.response.some)

\* C30: in phase Read a read of zero bytes, a parser error and a socket error
\* other than would-block each make the handler return None with no producer
\* installed and no byte written, and the connection is out of the table when
\* that turn ends; a token that is not in the table gets no further call.
C30_ReadPhaseDrop ==
    /\ \A t \in DOMAIN h_conns :
          h_conns[t].status = "Read" =>
             /\ SocketFails(t)
             /\ \A c \in {FALSE} \cup {x \in {TRUE} : MayOverflow(h_conns[t].request.buffer \o h_in[t])} :
                   ReadFails(t, c)
    /\ \A t \in DOMAIN h_log :
          h_log[t].how = "read" =>
             /\ t \notin DOMAIN h_conns
             /\ h_turn # t
             /\ h_log[t].sent = SubSeq(h_log[t].owed, 1, Len(h_log[t].sent))

\* A connection was dropped for the parser error on its header line without
\* a colon, with nothing written.
C30_Witness ==
    \E t \in DOMAIN h_log :
       /\ h_log[t].how = "read"
       /\ h_log[t].consumed = Len(ReqBadHeader)
       /\ h_log[t].sent = ""
       /\ t \notin DOMAIN h_conns

\* The parser waits for the end of a line.
AwaitsLine == p_parser.state \in {"Init", "Headers"}

\* C31: while the parser waits for a line terminator in Init or in Headers its
\* unparsed buffer never holds more than MAX_HEADER_SIZE bytes; bytes beyond the
\* cap make append fail and are not retained.
C31_BufferBound == AwaitsLine => Len(p_parser.buffer) <= MAX_HEADER_SIZE

\* An accept has just inserted the entry of the token t.
Accepted(t) == t \notin DOMAIN l_connections /\ t \in DOMAIN l_connections'

\* C32 (the record): every accepted socket gets a record with phase Read, a
\* parser in Init, no response producer and the token of a registered
\* listener, under the token the counter held, and the counter only increases.
C32_AcceptRecord ==
    [][/\ l_next_token' >= l_next_token
       /\ \A t \in DOMAIN l_connections' :
             Accepted(t) =>
                /\ t = l_next_token /\ l_next_token' = t + 1
                /\ l_connections'[t].status.status = "Read"
                /\ l_connections'[t].status.request.state = "Init"
                /\ ~l_connections'[t].status.response.some
                /\ l_connections'[t].listener_token \in ListenerTokens
                /\ l_connections'[t].listener_token < CONNECTION_TOKEN_START]_vars

\* C32 (fresh tokens): the token of a connection is below the counter, so that
\* no later accept hands it out again, and is not the token of a connection
\* removed before.
C32_TokensFresh ==
    /\ \A t \in DOMAIN l_connections \cup l_removed : t < l_next_token
    /\ DOMAIN l_connections \cap l_removed = {}

\* C32: every accepted socket gets a record in phase Read with a fresh parser,
\* no producer and its listener's token; connection tokens come from a counter
\* that only increases and are never shared or reused; every connection token
\* is at least CONNECTION_TOKEN_START and every listener token is below it.
C32_TokenRanges ==
    /\ \A t \in DOMAIN l_connections : t >= CONNECTION_TOKEN_START
    /\ \A token \in ListenerTokens : token < CONNECTION_TOKEN_START

\* The phase of every connection agrees with its producer and its parser.
PhasesAgree ==
    \A t \in DOMAIN h_conns :
       /\ h_conns[t].status = "Read" => ~h_conns[t].response.some
       /\ h_conns[t].status = "Write" =>
             h_conns[t].response.some /\ done(h_conns[t].request)

\* This step is a call of Server::handle on the connection t in its read
\* phase that changed or removed its record.
ReadStep(t) ==
    /\ h_conns[t].status = "Read"
    /\ t \in DOMAIN h_conns' => h_conns'[t] # h_conns[t]

\* During this step a handler or the CGI bridge ran: a producer was installed
\* for some connection, or the filesystem or the session store changed.
HandlerRan ==
    \/ \E t \in DOMAIN h_conns : h_log'[t].owed # h_log[t].owed
    \/ h_fs' # h_fs
    \/ h_sessions' # h_sessions

\* The read of this step finished the request of the connection t.
ParsedNow(t) ==
    IF t \in DOMAIN h_conns' THEN done(h_conns'[t].request)
    ELSE \E c \in BOOLEAN :
            read_request(h_conns[t].request, h_in[t], h_eof[t], c).ret = "true"

\* C33: in phase Read no producer is installed; in phase Write one producer is
\* installed and the parser is done; a handler or the CGI bridge runs only in
\* a step whose read finished the request; bytes are written only for a
\* connection that had a producer installed.
C33_PhaseDiscipline ==
    /\ []PhasesAgree
    /\ [][/\ HandlerRan =>
               \E t \in DOMAIN h_conns : ReadStep(t) /\ ParsedNow(t)
          /\ \A t \in DOMAIN h_conns :
                /\ h_log'[t].owed # h_log[t].owed => ReadStep(t)
                /\ h_log'[t].sent # h_log[t].sent =>
                      h_conns[t].status = "Write" /\ h_conns[t].response.some]_vars

\* A kept-alive connection is in phase Write for its second request, part of
\* whose response is written.
C33_Witness ==
    \E t \in DOMAIN h_conns :
       /\ h_conns[t].status = "Write"
       /\ h_log[t].served >= 1
       /\ Len(h_log[t].sent) > Len(h_log[t].owed) - Len(ResponseBytes(h_conns[t].response.v))

\* The store maps of before and after this step agree on every id but id.
SameButFor(id) ==
    /\ DOMAIN s_sessions' \ {id} = DOMAIN s_sessions \ {id}
    /\ \A k \in DOMAIN s_sessions \ {id} : s_sessions'[k] = s_sessions[k]

\* C34: update returns true and replaces the stored session when its id is
\* present, and returns false leaving the map unchanged (never inserting) when
\* it is absent; destroy returns true exactly when the id was present and
\* removes it, so that a destroy of an id already gone returns false and
\* changes nothing.
C34_UpdateDestroy ==
    [][/\ Update =>
             IF s_held.v.id \in DOMAIN s_sessions
             THEN /\ s_ret'.ok
                  /\ s_held.v.id \in DOMAIN s_sessions'
                  /\ s_sessions'[s_held.v.id] = s_held.v
                  /\ SameButFor(s_held.v.id)
             ELSE ~s_ret'.ok /\ s_sessions' = s_sessions
       /\ \A id \in SessionIds :
             Destroy(id) =>
                /\ s_ret'.ok = (id \in DOMAIN s_sessions)
                /\ id \notin DOMAIN s_sessions'
                /\ SameButFor(id)
                /\ ~s_ret'.ok => s_sessions' = s_sessions]_vars

\* A destroy of the id of a session that was made and is gone returned false,
\* while another session is stored.
C34_Witness ==
    /\ s_ret.op = "destroy"
    /\ ~s_ret.ok
    /\ DOMAIN s_made \ DOMAIN s_sessions # {}
    /\ DOMAIN s_sessions # {}

\* C35: with the sweeps of the cleanup thread between the store operations of
\* the event loop, each operation one step under the lock, a session that
\* cleanup or destroy removed is in the map of no handle afterwards, whatever
\* stale clone is passed to update, and all handles reach the same map.
C35_SharedStore ==
    /\ \A h \in LoopHandles :
          /\ MapOf(h) = k_arcs[k_sweeper]
          /\ k_gone \cap DOMAIN MapOf(h) = {}

\* The event loop holds the clone of a session that a sweep removed, its
\* update was refused, and a connection has a handle of its own.
C35_Witness ==
    /\ k_held.some
    /\ k_held.v.id \in k_gone
    /\ is_expired(k_held.v, k_now)
    /\ k_ret = [op |-> "update", ok |-> FALSE]
    /\ Len(k_stores) = MaxHandles

\* C36: the last-activity stamp of a connection is set at accept and advanced
\* on every later turn in which the connection reads or writes bytes, so it is
\* never older than the most recent read or write of the connection.
C36_ActivityStamp ==
    \A t \in DOMAIN l_connections : l_connections[t].ttl >= l_io[t]

\* The connections whose record this step changed or removed.
Disturbed ==
    {u \in DOMAIN l_connections :
        u \notin DOMAIN l_connections' \/ l_connections'[u] # l_connections[u]}

\* This step is a turn of the connection t: it read or wrote on t, went on
\* with its inner loop, or ended the process.
TurnOf(t) ==
    \/ l_in'[t] # l_in[t]
    \/ l_turn' = t
    \/ l_turn = t
    \/ t \in Disturbed

\* C37 (turns that return): a turn of a connection in which Server::handle
\* returns leaves every other record and the listeners as they are.
C37_FrameOfReturningTurn ==
    [][l_running /\ l_running' =>
          /\ l_token_counter' = l_token_counter
          /\ \A t \in DOMAIN l_connections : TurnOf(t) => Disturbed \subseteq {t}]_vars

\* C37: a turn for one connection changes only the record of that connection
\* and the shared session store, never the phase, parser or producer of
\* another connection nor any listener, and dropping a connection removes only
\* its own entry of the table.
C37_TurnFrame ==
    [][l_running =>
          /\ l_token_counter' = l_token_counter
          /\ \A t \in DOMAIN l_connections : TurnOf(t) => Disturbed \subseteq {t}]_vars

\* C38: the bytes of a following request that arrive in the same socket read
\* as the end of the current keep-alive request are never parsed as part of a
\* request: they stay unparsed in the buffer of the finished parser and go
\* with it at the keep-alive reset, so that the body a parser holds is made of
\* bytes of the body of a request that was sent.
C38_FollowingBytesDropped ==
    \A t \in DOMAIN l_connections :
       \E body \in SentBodies :
          StartsWith(body, l_connections[t].status.request.request.body)

\* C38 (one segment): when the upload and the request behind it arrive whole
\* in one segment, no parser holds a body other than a part of the upload's,
\* and the connection is back in phase Read with an empty parser once the
\* upload is served.
C38_WholeUploadDropsRest ==
    \A t \in DOMAIN h_conns :
       /\ \E body \in {"", "hey", "abc"} :
             StartsWith(body, h_conns[t].request.request.body)
       /\ (h_conns[t].status = "Read" /\ h_log[t].served >= 1 /\ h_in[t] = ""
              /\ h_log[t].fed = 0)
             => h_conns[t].request = HttpRequestBuilder_new

\* C39: every chunk-size line that append accepts denotes a non-negative
\* number whose addition to body_size does not overflow, so that the body is
\* never longer than body_size and body_size minus the body length never
\* underflows.
C39_ChunkSizesBounded ==
    /\ p_res # "panic"
    /\ Len(p_parser.request.body) <= p_parser.body_size

====
